---- MODULE Spec2Model ----
(***************************************************************************)
(* amp-wrapped: the usage collector (collector.ts) as a state machine.     *)
(*                                                                         *)
(* Strings the code inspects character by character (file names, URIs,    *)
(* model ids, date keys) are sequences of one-character strings.  An       *)
(* optional JavaScript value is a sequence of length 0 (undefined / null)  *)
(* or 1 (the value).  Times are whole hours since the epoch (the code      *)
(* keeps milliseconds; every time of the model is a whole hour).  The      *)
(* local time zone is a fixed offset from UTC.                             *)
(***************************************************************************)
EXTENDS Integers, Sequences, FiniteSets, TLC

\* ------------------------------------------------------------------------
\* Bounds
\* ------------------------------------------------------------------------

\* The largest number of entries readdir returns for the threads directory.
MaxFiles == 3

\* ------------------------------------------------------------------------
\* JavaScript values
\* ------------------------------------------------------------------------

None == <<>>
Some(v) == <<v>>
IsSome(o) == Len(o) = 1
Val(o) == o[1]

\* x || 0 for an optional number: undefined and 0 both give 0.
OrZero(o) == IF IsSome(o) THEN Val(o) ELSE 0

StartsWith(s, p) == Len(p) <= Len(s) /\ SubSeq(s, 1, Len(p)) = p

EndsWith(s, p) == Len(p) <= Len(s) /\ SubSeq(s, Len(s) - Len(p) + 1, Len(s)) = p

\* String.prototype.indexOf: the 0-based position of the first occurrence, or -1.
IndexOf(s, p) ==
  LET hits == {i \in 0..(Len(s) - Len(p)) : SubSeq(s, i + 1, i + Len(p)) = p}
  IN IF hits = {} THEN -1 ELSE CHOOSE i \in hits : \A j \in hits : i <= j

\* SplitLength counting the names between the separators of an absolute
\* path, not the parts split gives.
SplitLength_Names(s) == Cardinality({i \in 1..Len(s) : s[i] = "/"})

\* String.prototype.split("/"): the number of parts is one more than the
\* number of separators.
SplitLength(s) == Cardinality({i \in 1..Len(s) : s[i] = "/"}) + 1

\* parts.slice(0, -1).join("/"): everything before the last separator.
DropLastPart(s) ==
  LET seps == {i \in 1..Len(s) : s[i] = "/"}
  IN IF seps = {} THEN <<>>
     ELSE SubSeq(s, 1, (CHOOSE i \in seps : \A j \in seps : j <= i) - 1)

Digits == <<"0", "1", "2", "3", "4", "5", "6", "7", "8", "9">>

\* String(n) for a natural number.
RECURSIVE ToDecimal(_)
ToDecimal(n) ==
  IF n < 10 THEN <<Digits[n + 1]>>
  ELSE ToDecimal(n \div 10) \o <<Digits[(n % 10) + 1]>>

\* s.padStart(2, "0")
PadStart2(s) == IF Len(s) < 2 THEN <<"0">> \o s ELSE s

\* ------------------------------------------------------------------------
\* Date: local calendar fields of a time (hours since the epoch)
\* ------------------------------------------------------------------------

HoursPerDay == 24

\* The proleptic Gregorian date of a day number (days since 1970-01-01).
CivilFromDays(days) ==
  LET z   == days + 719468
      era == z \div 146097
      doe == z - era * 146097
      yoe == (doe - doe \div 1460 + doe \div 36524 - doe \div 146096) \div 365
      doy == doe - (365 * yoe + yoe \div 4 - yoe \div 100)
      mp  == (5 * doy + 2) \div 153
      d   == doy - (153 * mp + 2) \div 5 + 1
      m   == IF mp < 10 THEN mp + 3 ELSE mp - 9
      y   == yoe + era * 400 + (IF m <= 2 THEN 1 ELSE 0)
  IN [year |-> y, month |-> m, day |-> d]

\* The day number (days since 1970-01-01) of a proleptic Gregorian date.
DaysFromCivil(y, m, d) ==
  LET yy  == IF m <= 2 THEN y - 1 ELSE y
      era == yy \div 400
      yoe == yy - era * 400
      mp  == IF m > 2 THEN m - 3 ELSE m + 9
      doy == (153 * mp + 2) \div 5 + d - 1
      doe == yoe * 365 + yoe \div 4 - yoe \div 100 + doy
  IN era * 146097 + doe - 719468

\* The local time zones of the process are named by their offset from UTC
\* in hours. The zone 8 hours behind UTC keeps daylight time as
\* America/Los_Angeles does: from the second Sunday of March, 10:00 UTC, to
\* the first Sunday of November, 09:00 UTC, local time is 7 hours behind.
DaylightTimes ==
  { [from |-> DaysFromCivil(2024, 3, 10) * HoursPerDay + 10,
     to   |-> DaysFromCivil(2024, 11, 3) * HoursPerDay + 9],
    [from |-> DaysFromCivil(2025, 3, 9) * HoursPerDay + 10,
     to   |-> DaysFromCivil(2025, 11, 2) * HoursPerDay + 9] }

\* The offset of local time from UTC at time t.
LocalOffset(t, tz) ==
  IF tz = -8 /\ \E p \in DaylightTimes : p.from <= t /\ t < p.to THEN tz + 1 ELSE tz

\* The local day number of a time.
LocalDay(t, tz) == (t + LocalOffset(t, tz)) \div HoursPerDay

\* Date.prototype.getFullYear of new Date(created); NaN (None) for an
\* Invalid Date.
GetFullYear(created, tz) ==
  IF IsSome(created) THEN Some(CivilFromDays(LocalDay(Val(created), tz)).year)
  ELSE None

formatDateKey(t, tz) ==
  LET c == CivilFromDays(LocalDay(t, tz))
  IN ToDecimal(c.year) \o <<"-">> \o PadStart2(ToDecimal(c.month))
       \o <<"-">> \o PadStart2(ToDecimal(c.day))

\* ------------------------------------------------------------------------
\* Map<string, number>: the entries in insertion order
\* ------------------------------------------------------------------------

MapHas(m, k) == \E i \in 1..Len(m) : m[i][1] = k

MapGet(m, k) ==
  IF MapHas(m, k) THEN Some(m[CHOOSE i \in 1..Len(m) : m[i][1] = k][2]) ELSE None

\* Map.prototype.set: an existing key keeps its position.
MapSet(m, k, v) ==
  IF MapHas(m, k)
  THEN [i \in 1..Len(m) |-> IF m[i][1] = k THEN <<k, v>> ELSE m[i]]
  ELSE Append(m, <<k, v>>)

MapKeys(m) == {m[i][1] : i \in 1..Len(m)}

\* The key-to-value content of a map, without the insertion order.
MapContent(m) == {m[i] : i \in 1..Len(m)}

\* ------------------------------------------------------------------------
\* Project path of a file mention
\* ------------------------------------------------------------------------

FileScheme == <<"f", "i", "l", "e", ":", "/", "/">>

projectIndicators ==
  << <<"/", "s", "r", "c", "/">>,
     <<"/", "l", "i", "b", "/">>,
     <<"/", "a", "p", "p", "/">>,
     <<"/", "c", "o", "m", "p", "o", "n", "e", "n", "t", "s", "/">>,
     <<"/", "p", "a", "g", "e", "s", "/">> >>

\* IndicatorPrefix taking the indicator that occurs at the smallest position
\* of the path, whatever its place in the list.
IndicatorPrefix_Leftmost(path, k) ==
  LET found == {IndexOf(path, projectIndicators[j]) : j \in k..Len(projectIndicators)} \ {-1}
  IN IF found = {} THEN None
     ELSE Some(SubSeq(path, 1, CHOOSE i \in found : \A j \in found : i <= j))

\* The loop over projectIndicators from indicator k on: the first indicator,
\* in the order of the list, that occurs in the path decides.
RECURSIVE IndicatorPrefix(_, _)
IndicatorPrefix(path, k) ==
  IF k > Len(projectIndicators) THEN None
  ELSE LET idx == IndexOf(path, projectIndicators[k])
       IN IF idx # -1 THEN Some(SubSeq(path, 1, idx))
          ELSE IndicatorPrefix(path, k + 1)

\* extractProjectPath(uri): None is null.
extractProjectPath(uri) ==
  IF ~StartsWith(uri, FileScheme) THEN None
  ELSE LET path == SubSeq(uri, Len(FileScheme) + 1, Len(uri))
           byIndicator == IndicatorPrefix(path, 1)
       IN IF IsSome(byIndicator) THEN byIndicator
          ELSE IF SplitLength(path) >= 4 THEN Some(DropLastPart(path))
          ELSE None

\* The loop over message.fileMentions.files from file k on.  A file without
\* a uri makes uri.startsWith throw; the projects added before it stay.
\* if (projectPath): null and the empty string add nothing.
RECURSIVE AddProjects(_, _, _)
AddProjects(projects, files, k) ==
  IF k > Len(files) THEN [projects |-> projects, threw |-> FALSE]
  ELSE IF ~IsSome(files[k].uri) THEN [projects |-> projects, threw |-> TRUE]
  ELSE LET projectPath == extractProjectPath(Val(files[k].uri))
       IN AddProjects(
            IF IsSome(projectPath) /\ Val(projectPath) # <<>>
            THEN projects \cup {Val(projectPath)} ELSE projects,
            files, k + 1)

\* ------------------------------------------------------------------------
\* The running totals of collectAmpUsageSummary
\* ------------------------------------------------------------------------

EmptySummary ==
  [totalInputTokens     |-> 0,
   totalOutputTokens    |-> 0,
   totalCacheReadTokens |-> 0,
   totalTokens          |-> 0,
   totalCredits         |-> 0,
   modelTokenTotals     |-> <<>>,
   modelCreditTotals    |-> <<>>,
   firstTimestamp       |-> None,
   dailyActivity        |-> <<>>,
   totalMessages        |-> 0,
   totalSessions        |-> 0,
   projects             |-> {}]

UnknownModel == <<"u", "n", "k", "n", "o", "w", "n">>

\* usage.model || "unknown": an absent and an empty model id are "unknown".
UsageModel(usage) ==
  IF IsSome(usage.model) /\ Val(usage.model) # <<>> THEN Val(usage.model)
  ELSE UnknownModel

\* EntryTotal with the cache-read tokens left out of the entry total.
EntryTotal_NoCacheRead(usage) ==
  OrZero(usage.inputTokens) + OrZero(usage.outputTokens)

\* const entryTotal = input + output + cacheRead
EntryTotal(usage) ==
  OrZero(usage.inputTokens) + OrZero(usage.outputTokens)
    + OrZero(usage.cacheReadInputTokens)

\* if (model && model !== "unknown")
CountsForModel(model) == model # <<>> /\ model # UnknownModel

\* The body of if (message.role === "assistant" && message.usage).
FoldUsage(s, usage) ==
  LET model      == UsageModel(usage)
      credits    == OrZero(usage.credits)
      entryTotal == EntryTotal(usage)
      t == [s EXCEPT
              !.totalInputTokens     = @ + OrZero(usage.inputTokens),
              !.totalOutputTokens    = @ + OrZero(usage.outputTokens),
              !.totalCacheReadTokens = @ + OrZero(usage.cacheReadInputTokens),
              !.totalTokens          = @ + entryTotal,
              !.totalCredits         = @ + credits]
  IN IF CountsForModel(model)
     THEN [t EXCEPT
             !.modelTokenTotals  = MapSet(@, model, OrZero(MapGet(@, model)) + entryTotal),
             !.modelCreditTotals = MapSet(@, model, OrZero(MapGet(@, model)) + credits)]
     ELSE t

\* if (message.role === "user")
IsUserMessage(message) == message.role = "user"

\* The body of if (message.role === "user"): the message is counted before
\* its file mentions are read.
FoldUser(s, message) ==
  LET counted == [s EXCEPT !.totalMessages = @ + 1]
  IN IF IsSome(message.files)
     THEN LET r == AddProjects(counted.projects, Val(message.files), 1)
          IN [summary |-> [counted EXCEPT !.projects = r.projects],
              threw   |-> r.threw]
     ELSE [summary |-> counted, threw |-> FALSE]

\* One pass of the loop over thread.messages.  Reading the role of a null
\* message throws.
MessageStep(s, message) ==
  IF message.isNull THEN [summary |-> s, threw |-> TRUE]
  ELSE IF IsUserMessage(message) THEN FoldUser(s, message)
  ELSE IF message.role = "assistant" /\ IsSome(message.usage)
       THEN [summary |-> FoldUsage(s, Val(message.usage)), threw |-> FALSE]
  ELSE [summary |-> s, threw |-> FALSE]

\* NotRequestedYear with < for !==: threads of later years pass.
NotRequestedYear_OnlyPast(fullYear, y) == ~IsSome(fullYear) \/ Val(fullYear) < y

\* if (threadDate.getFullYear() !== year) continue;  NaN differs from every
\* year.
NotRequestedYear(fullYear, y) == ~IsSome(fullYear) \/ Val(fullYear) # y

\* EarlierThanFirst without the comparison: only the first thread sets it.
EarlierThanFirst_NullOnly(created, firstTimestamp) == ~IsSome(firstTimestamp)

\* EarlierThanFirst with > for <: the latest thread wins.
EarlierThanFirst_Later(created, firstTimestamp) ==
  ~IsSome(firstTimestamp) \/ created > Val(firstTimestamp)

\* if (firstTimestamp === null || threadDate < firstTimestamp)
EarlierThanFirst(created, firstTimestamp) ==
  ~IsSome(firstTimestamp) \/ created < Val(firstTimestamp)

\* CountSession with dailyActivity.set(dateKey, 1): the day's count is not
\* accumulated.
CountSession_NoAccumulate(s, created, tz) ==
  [s EXCEPT
     !.totalSessions  = @ + 1,
     !.firstTimestamp = IF ~IsSome(@) \/ created < Val(@) THEN Some(created) ELSE @,
     !.dailyActivity  = MapSet(@, formatDateKey(created, tz), 1)]

\* totalSessions++, firstTimestamp and dailyActivity for a thread of the
\* requested year.
CountSession(s, created, tz) ==
  LET dateKey == formatDateKey(created, tz)
  IN [s EXCEPT
        !.totalSessions  = @ + 1,
        !.firstTimestamp = IF EarlierThanFirst(created, @) THEN Some(created) ELSE @,
        !.dailyActivity  = MapSet(@, dateKey, OrZero(MapGet(@, dateKey)) + 1)]

\* ------------------------------------------------------------------------
\* The thread files the collector may find
\* ------------------------------------------------------------------------

Usage(model, input, output, cacheRead, credits) ==
  [model |-> model, inputTokens |-> input, outputTokens |-> output,
   cacheReadInputTokens |-> cacheRead, credits |-> credits]

Message(role, usage, files) ==
  [isNull |-> FALSE, role |-> role, usage |-> usage, files |-> files]

\* A null element of the messages array.
NullMessage == [isNull |-> TRUE, role |-> "", usage |-> None, files |-> None]

Thread(created, messages) ==
  [parses |-> TRUE, created |-> created, messages |-> messages]

\* A file that cannot be read, is not JSON, or holds null.
Unparseable == [parses |-> FALSE, created |-> None, messages |-> None]

File(uri) == [uri |-> uri]

ClaudeModel == <<"c", "l", "a", "u", "d", "e", "-", "4">>
GptModel    == <<"g", "p", "t", "-", "4", "o">>

\* file:///p/a/src/x, file:///p/b/c/y, file:///y, http://h/src/x, file:///src/x
UriSrc    == FileScheme \o <<"/", "p", "/", "a", "/", "s", "r", "c", "/", "x">>
UriParent == FileScheme \o <<"/", "p", "/", "b", "/", "c", "/", "y">>
UriShort  == FileScheme \o <<"/", "y">>
UriHttp   == <<"h", "t", "t", "p", ":", "/", "/", "h", "/", "s", "r", "c", "/", "x">>
UriRoot   == FileScheme \o <<"/", "s", "r", "c", "/", "x">>

UserPlain    == Message("user", None, None)
UserSrc      == Message("user", None, Some(<<File(Some(UriSrc)), File(Some(UriHttp))>>))
UserParent   == Message("user", None, Some(<<File(Some(UriParent)), File(Some(UriShort)), File(Some(UriRoot))>>))
UserNoUri    == Message("user", None, Some(<<File(Some(UriSrc)), File(None)>>))
AsstClaude   == Message("assistant", Some(Usage(Some(ClaudeModel), Some(3), Some(2), Some(1), Some(2))), None)
AsstGpt      == Message("assistant", Some(Usage(Some(GptModel), Some(4), None, None, None)), None)
AsstNoModel  == Message("assistant", Some(Usage(None, Some(1), Some(1), None, Some(1))), None)
AsstUnknown  == Message("assistant", Some(Usage(Some(UnknownModel), None, Some(2), Some(5), Some(3))), None)
AsstEmptyId  == Message("assistant", Some(Usage(Some(<<>>), Some(2), None, None, None)), None)
AsstNoUsage  == Message("assistant", None, None)

\* 2025-01-01T00:00Z in hours since the epoch.
NewYear2025 == 20089 * HoursPerDay

JsonName(stem) == stem \o <<".", "j", "s", "o", "n">>

ThreadFile(id, content) ==
  [name |-> JsonName(<<"T", "-", id>>), isFile |-> TRUE, content |-> content]

\* The entries readdir may return: thread files whose creation times lie
\* around the turn of the year 2025, and entries that are not thread files.
DirPool ==
  { ThreadFile("1", Thread(Some(NewYear2025 + 3), Some(<<UserSrc, AsstClaude>>))),
    ThreadFile("2", Thread(Some(NewYear2025 - 5), Some(<<AsstGpt, UserPlain, AsstNoModel>>))),
    ThreadFile("3", Thread(Some(NewYear2025 + 10), Some(<<AsstUnknown, AsstNoUsage, AsstClaude, UserParent>>))),
    ThreadFile("4", Thread(Some(NewYear2025 + 30), None)),
    ThreadFile("5", Thread(Some(NewYear2025 + 1), Some(<<UserPlain, AsstGpt, NullMessage, UserSrc, AsstClaude>>))),
    ThreadFile("6", Unparseable),
    ThreadFile("7", Thread(None, Some(<<UserSrc, AsstClaude>>))),
    ThreadFile("8", Thread(Some(NewYear2025 - 4000), Some(<<UserParent, AsstEmptyId, AsstGpt>>))),
    ThreadFile("9", Thread(Some(NewYear2025 + 2), Some(<<UserNoUri, AsstGpt>>))),
    [name |-> JsonName(<<"h", "i", "s", "t">>), isFile |-> TRUE,
     content |-> Thread(Some(NewYear2025 + 3), Some(<<UserPlain, AsstClaude>>))],
    [name |-> <<"T", "-", "a", ".", "t", "x", "t">>, isFile |-> TRUE,
     content |-> Thread(Some(NewYear2025 + 3), Some(<<UserPlain, AsstGpt>>))],
    [name |-> JsonName(<<"T", "-", "d">>), isFile |-> FALSE, content |-> Unparseable] }

\* Directory listings: up to MaxFiles entries with distinct names, in any
\* order.
DirListings ==
  UNION { { l \in [1..n -> DirPool] :
              \A i, j \in 1..n : l[i].name = l[j].name => i = j } : n \in 0..MaxFiles }

\* The local time zones: America/Los_Angeles, UTC and Asia/Tokyo.
TimeZones == {-8, 0, 9}

\* The years a run may ask for.
Years == {2024, 2025}

\* ------------------------------------------------------------------------
\* listThreadFiles
\* ------------------------------------------------------------------------

\* IsThreadFile without the startsWith("T-") test.
IsThreadFile_AnyPrefix(entry) ==
  entry.isFile /\ EndsWith(entry.name, <<".", "j", "s", "o", "n">>)

\* entry.isFile() && entry.name.endsWith(".json") && entry.name.startsWith("T-")
IsThreadFile(entry) ==
  /\ entry.isFile
  /\ EndsWith(entry.name, <<".", "j", "s", "o", "n">>)
  /\ StartsWith(entry.name, <<"T", "-">>)

\* readdir of a missing directory throws, and the catch leaves files empty.
listThreadFiles(exists, entries) ==
  IF exists THEN SelectSeq(entries, IsThreadFile) ELSE <<>>

\* ------------------------------------------------------------------------
\* collectAmpUsageSummary as a state machine
\* ------------------------------------------------------------------------

VARIABLES
  tzOffset,     \* the local time zone of the process
  year,         \* the argument of collectAmpUsageSummary
  dirExists,    \* whether the threads directory exists
  dirEntries,   \* what readdir returns for it
  pc,           \* "start", "scan" (the loop over threadFiles), "messages"
                \* (the loop over thread.messages), "done" (returned)
  threadFiles,  \* the result of listThreadFiles
  fileIdx,      \* the position of the loop over threadFiles
  messages,     \* thread.messages of the thread being processed
  msgIdx,       \* the position of the loop over thread.messages
  summary,      \* the running totals, returned at the end
  now,          \* the time the clock gives when calculateAmpStats reads it
  stats,        \* the AmpCodeStats calculateAmpStats returns; None before that
  call,         \* a call of one function on its own: the function, its
                \* argument, and the value returned once it has returned
  cli           \* the run of main: its position, the steps it has taken and
                \* the exit code once the process has exited

vars == <<tzOffset, year, dirExists, dirEntries, pc, threadFiles, fileIdx,
          messages, msgIdx, summary, now, stats, call, cli>>

env == <<tzOffset, year, dirExists, dirEntries>>

calc == <<now, stats, call, cli>>

\* main is not running.
NoCli == [pc |-> "none", steps |-> <<>>, exitCode |-> <<>>]

\* No function is called on its own.
NoCall == [fn |-> "none", arg |-> <<>>, returned |-> FALSE, ret |-> <<>>]

Init ==
  /\ tzOffset \in TimeZones
  /\ year \in Years
  /\ dirExists \in BOOLEAN
  /\ dirEntries \in (IF dirExists THEN DirListings ELSE {<<>>})
  /\ pc = "start"
  /\ threadFiles = <<>>
  /\ fileIdx = 1
  /\ messages = <<>>
  /\ msgIdx = 1
  /\ summary = EmptySummary
  /\ now = NewYear2025 + 2 * HoursPerDay
  /\ stats = None
  /\ cli = NoCli
  /\ call = NoCall

\* AfterCatch without the inner try: the exception reaches the outer catch
\* and ends the loop.
AfterCatch_Abort(i, n) == n + 1

\* The position of the loop over threadFiles after the inner catch took an
\* exception of file i of n: the loop goes on with the next file.
AfterCatch(i, n) == i + 1

\* const threadFiles = await listThreadFiles(AMP_THREADS_PATH)
ListThreadFiles ==
  /\ pc = "start"
  /\ threadFiles' = listThreadFiles(dirExists, dirEntries)
  /\ pc' = "scan"
  /\ UNCHANGED <<env, calc, fileIdx, messages, msgIdx, summary>>

\* One file of the loop, up to the loop over its messages: read and parse,
\* the year check, the session counters.  A thread without a messages list
\* throws when the loop over thread.messages starts.
OpenThread ==
  /\ pc = "scan"
  /\ fileIdx <= Len(threadFiles)
  /\ LET thread == threadFiles[fileIdx].content
     IN IF ~thread.parses
        THEN /\ fileIdx' = AfterCatch(fileIdx, Len(threadFiles))
             /\ UNCHANGED <<pc, messages, msgIdx, summary>>
        ELSE IF NotRequestedYear(GetFullYear(thread.created, tzOffset), year)
        THEN /\ fileIdx' = fileIdx + 1
             /\ UNCHANGED <<pc, messages, msgIdx, summary>>
        ELSE /\ summary' = CountSession(summary, Val(thread.created), tzOffset)
             /\ IF IsSome(thread.messages)
                THEN /\ pc' = "messages"
                     /\ messages' = Val(thread.messages)
                     /\ msgIdx' = 1
                     /\ UNCHANGED fileIdx
                ELSE /\ fileIdx' = AfterCatch(fileIdx, Len(threadFiles))
                     /\ UNCHANGED <<pc, messages, msgIdx>>
  /\ UNCHANGED <<env, calc, threadFiles>>

\* One message of the loop over thread.messages.  An exception ends the
\* thread; what was added before it stays.
ProcessMessage ==
  /\ pc = "messages"
  /\ msgIdx <= Len(messages)
  /\ LET r == MessageStep(summary, messages[msgIdx])
     IN /\ summary' = r.summary
        /\ IF r.threw
           THEN /\ pc' = "scan"
                /\ fileIdx' = AfterCatch(fileIdx, Len(threadFiles))
                /\ messages' = <<>>
                /\ msgIdx' = 1
           ELSE /\ msgIdx' = msgIdx + 1
                /\ UNCHANGED <<pc, fileIdx, messages>>
  /\ UNCHANGED <<env, calc, threadFiles>>

\* The loop over thread.messages ends: next file.
EndThread ==
  /\ pc = "messages"
  /\ msgIdx > Len(messages)
  /\ pc' = "scan"
  /\ fileIdx' = fileIdx + 1
  /\ messages' = <<>>
  /\ msgIdx' = 1
  /\ UNCHANGED <<env, calc, threadFiles, summary>>

\* The loop over threadFiles ends: return the summary.
Return ==
  /\ pc = "scan"
  /\ fileIdx > Len(threadFiles)
  /\ pc' = "done"
  /\ UNCHANGED <<env, calc, threadFiles, fileIdx, messages, msgIdx, summary>>

Next == ListThreadFiles \/ OpenThread \/ ProcessMessage \/ EndThread \/ Return

Spec == Init /\ [][Next]_vars

\* The runs compared across enumeration orders: a year asked for in a time
\* zone east and one in a time zone west of UTC.
InitOrder == Init /\ <<tzOffset, year>> \in {<<9, 2025>>, <<-8, 2024>>}

SpecOrder == InitOrder /\ [][Next]_vars

\* ------------------------------------------------------------------------
\* collectAmpUsageSummary as a function of what the directory holds
\* ------------------------------------------------------------------------

\* The loop over thread.messages from message k on; it ends at the first
\* exception.
RECURSIVE FoldMessages(_, _, _)
FoldMessages(s, msgs, k) ==
  IF k > Len(msgs) THEN s
  ELSE LET r == MessageStep(s, msgs[k])
       IN IF r.threw THEN r.summary ELSE FoldMessages(r.summary, msgs, k + 1)

\* The body of the loop over threadFiles for one file.
FoldThread(s, thread, y, tz) ==
  IF ~thread.parses THEN s
  ELSE IF NotRequestedYear(GetFullYear(thread.created, tz), y) THEN s
  ELSE LET counted == CountSession(s, Val(thread.created), tz)
       IN IF IsSome(thread.messages)
          THEN FoldMessages(counted, Val(thread.messages), 1)
          ELSE counted

RECURSIVE FoldFiles(_, _, _, _, _)
FoldFiles(s, files, k, y, tz) ==
  IF k > Len(files) THEN s
  ELSE FoldFiles(FoldThread(s, files[k].content, y, tz), files, k + 1, y, tz)

collectAmpUsageSummary(exists, entries, y, tz) ==
  FoldFiles(EmptySummary, listThreadFiles(exists, entries), 1, y, tz)

\* ------------------------------------------------------------------------
\* Properties
\* ------------------------------------------------------------------------

RemoveAt(seq, i) == SubSeq(seq, 1, i - 1) \o SubSeq(seq, i + 1, Len(seq))

\* The directory entries that satisfy the thread-file naming rule, stated
\* on the entry itself.
NamedAsThread(entry) ==
  /\ entry.isFile
  /\ Len(entry.name) >= 7
  /\ entry.name[1] = "T" /\ entry.name[2] = "-"
  /\ SubSeq(entry.name, Len(entry.name) - 4, Len(entry.name)) = <<".", "j", "s", "o", "n">>

\* The local calendar year of a creation time.
LocalYear(created) == CivilFromDays((created + tzOffset) \div 24).year

\* A record with a creation time in local calendar year y.
CreatedInYear(thread, y) ==
  thread.parses /\ IsSome(thread.created) /\ LocalYear(Val(thread.created)) = y

\* A record with a creation time outside local calendar year y.
CreatedOutsideYear(thread, y) ==
  thread.parses /\ IsSome(thread.created) /\ LocalYear(Val(thread.created)) # y

\* The thread files of the directory that carry a creation time in the
\* requested year: the threads the year filter retains.
Retained ==
  {i \in 1..Len(dirEntries) :
     dirExists /\ NamedAsThread(dirEntries[i]) /\ CreatedInYear(dirEntries[i].content, year)}

\* Two summaries with the same scalar totals, the same key-to-value content
\* of the three maps, the same projects and the same firstTimestamp.
SameContent(a, b) ==
  /\ a.totalInputTokens = b.totalInputTokens
  /\ a.totalOutputTokens = b.totalOutputTokens
  /\ a.totalCacheReadTokens = b.totalCacheReadTokens
  /\ a.totalTokens = b.totalTokens
  /\ a.totalCredits = b.totalCredits
  /\ a.totalMessages = b.totalMessages
  /\ a.totalSessions = b.totalSessions
  /\ MapContent(a.modelTokenTotals) = MapContent(b.modelTokenTotals)
  /\ MapContent(a.modelCreditTotals) = MapContent(b.modelCreditTotals)
  /\ MapContent(a.dailyActivity) = MapContent(b.dailyActivity)
  /\ a.projects = b.projects
  /\ a.firstTimestamp = b.firstTimestamp

\* C1: a thread whose local creation date is not in the requested year
\* changes no field of the summary: the summary returned equals the summary
\* of the same directory with that thread removed.
C1_YearFilterFrame ==
  pc = "done" =>
    \A i \in 1..Len(dirEntries) :
      CreatedOutsideYear(dirEntries[i].content, year) =>
        summary = collectAmpUsageSummary(dirExists, RemoveAt(dirEntries, i), year, tzOffset)

\* A run that returned a non-empty summary from a directory holding a thread
\* file created outside the requested year (with messages and usage).
C1_Witness ==
  /\ pc = "done"
  /\ summary.totalSessions > 0
  /\ \E i \in 1..Len(dirEntries) :
       /\ NamedAsThread(dirEntries[i])
       /\ CreatedOutsideYear(dirEntries[i].content, year)
       /\ IsSome(dirEntries[i].content.messages)

\* C2: at every point of the scan totalTokens is the sum of the input,
\* output and cache-read totals, and no total is negative.
C2_TokenTotals ==
  /\ summary.totalTokens =
       summary.totalInputTokens + summary.totalOutputTokens + summary.totalCacheReadTokens
  /\ summary.totalInputTokens >= 0
  /\ summary.totalOutputTokens >= 0
  /\ summary.totalCacheReadTokens >= 0
  /\ summary.totalTokens >= 0
  /\ summary.totalCredits >= 0
  /\ summary.totalMessages >= 0
  /\ summary.totalSessions >= 0

\* In the middle of a thread, after usage entries with input, output and
\* cache-read tokens were folded in.
C2_Witness ==
  /\ pc = "messages"
  /\ msgIdx <= Len(messages)
  /\ summary.totalInputTokens > 0
  /\ summary.totalOutputTokens > 0
  /\ summary.totalCacheReadTokens > 0

Orders(n) == {f \in [1..n -> 1..n] : \A i, j \in 1..n : f[i] = f[j] => i = j}

\* C3: the summary returned has the same content as the summary of the same
\* thread files enumerated in any other order.
C3_OrderIndependent ==
  pc = "done" =>
    \A f \in Orders(Len(threadFiles)) :
      SameContent(summary,
                  FoldFiles(EmptySummary,
                            [i \in 1..Len(threadFiles) |-> threadFiles[f[i]]],
                            1, year, tzOffset))

\* A run over three retained threads, created on two days and naming two
\* models, the earliest of them not enumerated first.
C3_Witness ==
  /\ pc = "done"
  /\ summary.totalSessions = 3
  /\ Len(summary.dailyActivity) = 2
  /\ Len(summary.modelTokenTotals) = 2
  /\ summary.projects # {}
  /\ 1 \in Retained
  /\ Val(summary.firstTimestamp) < Val(dirEntries[1].content.created)

\* A record the loop body processes without an exception: it parses, has a
\* creation time and a messages list, no message is null and every file
\* mention has a uri.
WellFormed(thread) ==
  /\ thread.parses
  /\ IsSome(thread.created)
  /\ IsSome(thread.messages)
  /\ \A k \in 1..Len(Val(thread.messages)) :
       LET m == Val(thread.messages)[k]
       IN /\ ~m.isNull
          /\ IsSome(m.files) => \A f \in 1..Len(Val(m.files)) : IsSome(Val(m.files)[f].uri)

WellFormedEntry(entry) == WellFormed(entry.content)

\* Summary a holds at least what summary b holds.
Includes(a, b) ==
  /\ a.totalInputTokens >= b.totalInputTokens
  /\ a.totalOutputTokens >= b.totalOutputTokens
  /\ a.totalCacheReadTokens >= b.totalCacheReadTokens
  /\ a.totalTokens >= b.totalTokens
  /\ a.totalCredits >= b.totalCredits
  /\ a.totalMessages >= b.totalMessages
  /\ a.totalSessions >= b.totalSessions
  /\ \A e \in MapContent(b.modelTokenTotals) : OrZero(MapGet(a.modelTokenTotals, e[1])) >= e[2]
  /\ MapKeys(b.modelTokenTotals) \subseteq MapKeys(a.modelTokenTotals)
  /\ \A e \in MapContent(b.modelCreditTotals) : OrZero(MapGet(a.modelCreditTotals, e[1])) >= e[2]
  /\ \A e \in MapContent(b.dailyActivity) : OrZero(MapGet(a.dailyActivity, e[1])) >= e[2]
  /\ b.projects \subseteq a.projects
  /\ IsSome(b.firstTimestamp) =>
       IsSome(a.firstTimestamp) /\ Val(a.firstTimestamp) <= Val(b.firstTimestamp)

\* C4: a malformed record does not end the scan.  Between two files and
\* at the return, the loop has not run past the end of the list and the
\* summary holds everything the well-formed records enumerated so far, taken
\* alone, add up to; at the return these are all the well-formed records.
C4_MalformedDoesNotAbort ==
  pc \in {"scan", "done"} =>
    /\ fileIdx <= Len(threadFiles) + 1
    /\ pc = "done" => fileIdx = Len(threadFiles) + 1
    /\ Includes(summary,
                FoldFiles(EmptySummary,
                          SelectSeq(SubSeq(threadFiles, 1, fileIdx - 1), WellFormedEntry),
                          1, year, tzOffset))

\* A returned scan of three thread files: a malformed one between two
\* well-formed threads of the requested year.
C4_Witness ==
  /\ pc = "done"
  /\ Len(dirEntries) = 3
  /\ \A i \in 1..3 : NamedAsThread(dirEntries[i])
  /\ ~WellFormed(dirEntries[2].content)
  /\ \A i \in {1, 3} :
       WellFormed(dirEntries[i].content) /\ CreatedInYear(dirEntries[i].content, year)
  /\ summary.totalSessions >= 2

\* C5: a record whose processing fails is skipped as a whole: the summary
\* returned has the content of the summary of the directory without it.
C5_SkippedAsAWhole ==
  pc = "done" =>
    \A i \in 1..Len(dirEntries) :
      (NamedAsThread(dirEntries[i]) /\ ~WellFormed(dirEntries[i].content)) =>
        SameContent(summary,
                    collectAmpUsageSummary(dirExists, RemoveAt(dirEntries, i), year, tzOffset))

\* C6: a missing threads directory, or one holding no thread file, gives
\* the all-zero summary.
C6_AbsentSourceAllZero ==
  (pc = "done" /\ (~dirExists \/ \A i \in 1..Len(dirEntries) : ~NamedAsThread(dirEntries[i]))) =>
    /\ summary.totalInputTokens = 0
    /\ summary.totalOutputTokens = 0
    /\ summary.totalCacheReadTokens = 0
    /\ summary.totalTokens = 0
    /\ summary.totalCredits = 0
    /\ summary.totalMessages = 0
    /\ summary.totalSessions = 0
    /\ summary.modelTokenTotals = <<>>
    /\ summary.modelCreditTotals = <<>>
    /\ summary.dailyActivity = <<>>
    /\ summary.projects = {}
    /\ summary.firstTimestamp = None

\* The collector returned although the threads directory does not exist.
C6_Witness == pc = "done" /\ ~dirExists /\ threadFiles = <<>>

\* YYYY-MM-DD of the local calendar date of a creation time.
DateString(created) ==
  LET c == CivilFromDays((created + tzOffset) \div 24)
      D(n) == Digits[n + 1]
  IN <<D(c.year \div 1000), D((c.year \div 100) % 10), D((c.year \div 10) % 10), D(c.year % 10),
       "-", D(c.month \div 10), D(c.month % 10), "-", D(c.day \div 10), D(c.day % 10)>>

RetainedDate(i) == DateString(Val(dirEntries[i].content.created))

RetainedMessages ==
  UNION { {<<i, k>> : k \in {j \in 1..Len(Val(dirEntries[i].content.messages)) :
                              ~Val(dirEntries[i].content.messages)[j].isNull}} :
          i \in {r \in Retained : IsSome(dirEntries[r].content.messages)} }

MessageAt(p) == Val(dirEntries[p[1]].content.messages)[p[2]]

\* The assistant messages with a usage block in retained threads.
UsageEntries ==
  {p \in RetainedMessages : MessageAt(p).role = "assistant" /\ IsSome(MessageAt(p).usage)}

UsageAt(p) == Val(MessageAt(p).usage)

Count(o) == IF o = <<>> THEN 0 ELSE o[1]

TokensOf(p) ==
  Count(UsageAt(p).inputTokens) + Count(UsageAt(p).outputTokens)
    + Count(UsageAt(p).cacheReadInputTokens)

CreditsOf(p) == Count(UsageAt(p).credits)

\* The usage entries naming model m.
Naming(m) == {p \in UsageEntries : UsageAt(p).model = <<m>>}

RECURSIVE SumTokens(_)
SumTokens(S) ==
  IF S = {} THEN 0
  ELSE LET p == CHOOSE q \in S : TRUE IN TokensOf(p) + SumTokens(S \ {p})

RECURSIVE SumCredits(_)
SumCredits(S) ==
  IF S = {} THEN 0
  ELSE LET p == CHOOSE q \in S : TRUE IN CreditsOf(p) + SumCredits(S \ {p})

\* The model ids that are present and not "unknown".
NamedModels ==
  {UsageAt(p).model[1] : p \in {q \in UsageEntries : UsageAt(q).model # <<>>}}
    \ {<<>>, <<"u", "n", "k", "n", "o", "w", "n">>}

\* C9: every usage entry of a retained thread is added to the scalar
\* totals; the two per-model maps have the named models other than
\* "unknown" as their keys, and each holds the sum of the entries naming
\* the model.
C9_PerModelTotals ==
  pc = "done" =>
    /\ summary.totalTokens = SumTokens(UsageEntries)
    /\ summary.totalCredits = SumCredits(UsageEntries)
    /\ MapKeys(summary.modelTokenTotals) = NamedModels
    /\ MapKeys(summary.modelCreditTotals) = NamedModels
    /\ \A m \in NamedModels :
         /\ MapGet(summary.modelTokenTotals, m) = Some(SumTokens(Naming(m)))
         /\ MapGet(summary.modelCreditTotals, m) = Some(SumCredits(Naming(m)))

\* C10: totalMessages is the number of messages with role user in retained
\* threads.
C10_MessagesAreUserMessages ==
  pc = "done" =>
    summary.totalMessages = Cardinality({p \in RetainedMessages : MessageAt(p).role = "user"})

\* ------------------------------------------------------------------------
\* extractProjectPath called on its own
\* ------------------------------------------------------------------------

\* The longest path, in segments, of a URI.
MaxSegments == 4

\* The state of the collector before it runs, with local time zone tz and
\* requested year y.
CollectorAtStart(tz, y) ==
  /\ tzOffset = tz
  /\ year = y
  /\ dirExists = FALSE
  /\ dirEntries = <<>>
  /\ pc = "start"
  /\ threadFiles = <<>>
  /\ fileIdx = 1
  /\ messages = <<>>
  /\ msgIdx = 1
  /\ summary = EmptySummary

collector == <<tzOffset, year, dirExists, dirEntries, pc, threadFiles, fileIdx,
               messages, msgIdx, summary>>

\* The path segments of the URIs: the five indicator names and another name.
SegmentPool ==
  { <<"s", "r", "c">>, <<"l", "i", "b">>, <<"a", "p", "p">>,
    <<"c", "o", "m", "p", "o", "n", "e", "n", "t", "s">>,
    <<"p", "a", "g", "e", "s">>, <<"p">> }

RECURSIVE JoinSegments(_, _)
JoinSegments(segs, k) ==
  IF k > Len(segs) THEN <<>> ELSE <<"/">> \o segs[k] \o JoinSegments(segs, k + 1)

\* Absolute paths of one to MaxSegments segments.
PathPool ==
  UNION { {JoinSegments(segs, 1) : segs \in [1..n -> SegmentPool]} : n \in 1..MaxSegments }

HttpScheme == <<"h", "t", "t", "p", ":", "/", "/", "h">>

UriPool == {scheme \o path : scheme \in {FileScheme, HttpScheme}, path \in PathPool}

InitPath ==
  /\ CollectorAtStart(0, 2025)
  /\ now = NewYear2025 + 2 * HoursPerDay
  /\ stats = None
  /\ cli = NoCli
  /\ \E uri \in UriPool :
       call = [fn |-> "extractProjectPath", arg |-> uri, returned |-> FALSE, ret |-> <<>>]

\* const projectPath = extractProjectPath(file.uri)
CallExtractProjectPath ==
  /\ call.fn = "extractProjectPath"
  /\ ~call.returned
  /\ call' = [call EXCEPT !.returned = TRUE, !.ret = extractProjectPath(call.arg)]
  /\ UNCHANGED <<collector, now, stats, cli>>

SpecPath == InitPath /\ [][CallExtractProjectPath]_vars

\* The five markers, and the places (0-based) where marker k occurs in a
\* path.
Markers ==
  << <<"/", "s", "r", "c", "/">>, <<"/", "l", "i", "b", "/">>, <<"/", "a", "p", "p", "/">>,
     <<"/", "c", "o", "m", "p", "o", "n", "e", "n", "t", "s", "/">>,
     <<"/", "p", "a", "g", "e", "s", "/">> >>

MarkerPlaces(path, k) ==
  {i \in 0..(Len(path) - Len(Markers[k])) : SubSeq(path, i + 1, i + Len(Markers[k])) = Markers[k]}

MarkersIn(path) == {k \in 1..Len(Markers) : MarkerPlaces(path, k) # {}}

Least(S) == CHOOSE i \in S : \A j \in S : i <= j

\* The path of a file:// URI: what follows the scheme.
PathOfUri(uri) == SubSeq(uri, 8, Len(uri))

IsFileUri(uri) == Len(uri) >= 7 /\ SubSeq(uri, 1, 7) = <<"f", "i", "l", "e", ":", "/", "/">>

\* A returned call of extractProjectPath on a file:// URI with a marker.
PathCallWithMarker ==
  /\ call.fn = "extractProjectPath"
  /\ call.returned
  /\ IsFileUri(call.arg)
  /\ MarkersIn(PathOfUri(call.arg)) # {}

\* C11 as claimed: the project path is the part of the path before the
\* occurrence of any marker that is at the smallest position of the path.
C11_LeftmostMarkerDecides ==
  PathCallWithMarker =>
    LET path == PathOfUri(call.arg)
    IN call.ret =
         <<SubSeq(path, 1, Least(UNION {MarkerPlaces(path, k) : k \in MarkersIn(path)}))>>

\* C11 as amended: the project path is the part of the path before the
\* first occurrence of the marker that comes first in the list /src/, /lib/,
\* /app/, /components/, /pages/ among the markers the path contains.
C11_FirstListedMarkerDecides ==
  PathCallWithMarker =>
    LET path == PathOfUri(call.arg)
    IN call.ret = <<SubSeq(path, 1, Least(MarkerPlaces(path, Least(MarkersIn(path)))))>>

\* A returned call on a path where a marker later in the list occurs before
\* a marker earlier in the list.
C11_Witness ==
  /\ PathCallWithMarker
  /\ LET path == PathOfUri(call.arg)
     IN \E k \in MarkersIn(path) :
          k > Least(MarkersIn(path))
            /\ Least(MarkerPlaces(path, k)) < Least(MarkerPlaces(path, Least(MarkersIn(path))))

\* ------------------------------------------------------------------------
\* Stats calculator: strings and numbers
\* ------------------------------------------------------------------------

\* String.prototype.includes
StrIncludes(s, p) == IndexOf(s, p) # -1

\* String.prototype.split(sep) for a one-character separator.
RECURSIVE Split(_, _)
Split(s, sep) ==
  LET seps == {i \in 1..Len(s) : s[i] = sep}
  IN IF seps = {} THEN <<s>>
     ELSE LET i == CHOOSE i \in seps : \A j \in seps : i <= j
          IN <<SubSeq(s, 1, i - 1)>> \o Split(SubSeq(s, i + 1, Len(s)), sep)

\* Number(s) for a string of decimal digits.
RECURSIVE ToNumber(_)
ToNumber(s) ==
  IF s = <<>> THEN 0
  ELSE 10 * ToNumber(SubSeq(s, 1, Len(s) - 1))
         + ((CHOOSE d \in 1..Len(Digits) : Digits[d] = s[Len(s)]) - 1)

LowerCase == <<"a", "b", "c", "d", "e", "f", "g", "h", "i", "j", "k", "l", "m", "n", "o", "p", "q", "r", "s", "t", "u", "v", "w", "x", "y", "z">>

UpperCase == <<"A", "B", "C", "D", "E", "F", "G", "H", "I", "J", "K", "L", "M", "N", "O", "P", "Q", "R", "S", "T", "U", "V", "W", "X", "Y", "Z">>

\* s.charAt(0).toUpperCase() + s.slice(1)
Capitalize(s) ==
  IF s = <<>> THEN <<>>
  ELSE IF \E i \in 1..Len(LowerCase) : LowerCase[i] = s[1]
       THEN <<UpperCase[CHOOSE i \in 1..Len(LowerCase) : LowerCase[i] = s[1]]>> \o Tail(s)
       ELSE s

\* The UTF-16 order of the characters of a date key: "-" comes before the
\* digits.
CharRank(c) == IF c = "-" THEN 0 ELSE CHOOSE d \in 1..Len(Digits) : Digits[d] = c

\* a < b in the order Array.prototype.sort() uses without a comparator.
RECURSIVE LexLess(_, _)
LexLess(a, b) ==
  IF b = <<>> THEN FALSE
  ELSE IF a = <<>> THEN TRUE
  ELSE IF a[1] = b[1] THEN LexLess(Tail(a), Tail(b))
  ELSE CharRank(a[1]) < CharRank(b[1])

\* A JavaScript number that a division produced, kept as a fraction
\* (den > 0).
Frac(n, d) == [num |-> n, den |-> d]

FracZero == Frac(0, 1)

\* ------------------------------------------------------------------------
\* Stats calculator: dates
\* ------------------------------------------------------------------------

\* new Date("YYYY-MM-DD").getTime(): a date-only string is midnight UTC.
DateParse(key) ==
  LET parts == Split(key, "-")
  IN DaysFromCivil(ToNumber(parts[1]), ToNumber(parts[2]), ToNumber(parts[3])) * HoursPerDay

\* Date.prototype.getDay: the local day of the week, 0 = Sunday.
GetDay(t, tz) == (LocalDay(t, tz) + 4) % 7

\* Math.round(diffTime / (1000 * 60 * 60 * 24))
DiffDays(diffTime) == (2 * diffTime + HoursPerDay) \div (2 * HoursPerDay)

\* ------------------------------------------------------------------------
\* Stats calculator: providers and display names
\* ------------------------------------------------------------------------

\* resolveProviderId testing every name with includes.
resolveProviderId_Includes(modelId) ==
  IF StrIncludes(modelId, <<"c", "l", "a", "u", "d", "e">>) THEN "anthropic"
  ELSE IF StrIncludes(modelId, <<"g", "p", "t">>) \/ StrIncludes(modelId, <<"o", "1">>)
            \/ StrIncludes(modelId, <<"o", "3">>) THEN "openai"
  ELSE IF StrIncludes(modelId, <<"g", "e", "m", "i", "n", "i">>) THEN "google"
  ELSE IF StrIncludes(modelId, <<"m", "i", "s", "t", "r", "a", "l">>)
            \/ StrIncludes(modelId, <<"m", "i", "x", "t", "r", "a", "l">>) THEN "mistral"
  ELSE IF StrIncludes(modelId, <<"l", "l", "a", "m", "a">>) THEN "meta"
  ELSE IF StrIncludes(modelId, <<"d", "e", "e", "p", "s", "e", "e", "k">>) THEN "deepseek"
  ELSE "unknown"

resolveProviderId(modelId) ==
  IF StartsWith(modelId, <<"c", "l", "a", "u", "d", "e">>) THEN "anthropic"
  ELSE IF StartsWith(modelId, <<"g", "p", "t">>) \/ StartsWith(modelId, <<"o", "1">>)
            \/ StartsWith(modelId, <<"o", "3">>) THEN "openai"
  ELSE IF StartsWith(modelId, <<"g", "e", "m", "i", "n", "i">>) THEN "google"
  ELSE IF StrIncludes(modelId, <<"m", "i", "s", "t", "r", "a", "l">>)
            \/ StrIncludes(modelId, <<"m", "i", "x", "t", "r", "a", "l">>) THEN "mistral"
  ELSE IF StrIncludes(modelId, <<"l", "l", "a", "m", "a">>) THEN "meta"
  ELSE IF StrIncludes(modelId, <<"d", "e", "e", "p", "s", "e", "e", "k">>) THEN "deepseek"
  ELSE "unknown"

modelNames ==
  << <<<<"c", "l", "a", "u", "d", "e", "-", "o", "p", "u", "s", "-", "4", "-", "5", "-", "2", "0", "2", "5", "1", "1", "0", "1">>,
       <<"O", "p", "u", "s", " ", "4", ".", "5">>>>,
     <<<<"c", "l", "a", "u", "d", "e", "-", "s", "o", "n", "n", "e", "t", "-", "4", "-", "5", "-", "2", "0", "2", "5", "0", "9", "2", "9">>,
       <<"S", "o", "n", "n", "e", "t", " ", "4", ".", "5">>>>,
     <<<<"c", "l", "a", "u", "d", "e", "-", "s", "o", "n", "n", "e", "t", "-", "4", "-", "2", "0", "2", "5", "0", "5", "1", "4">>,
       <<"S", "o", "n", "n", "e", "t", " ", "4">>>>,
     <<<<"c", "l", "a", "u", "d", "e", "-", "h", "a", "i", "k", "u", "-", "4", "-", "5", "-", "2", "0", "2", "5", "1", "0", "0", "1">>,
       <<"H", "a", "i", "k", "u", " ", "4", ".", "5">>>>,
     <<<<"c", "l", "a", "u", "d", "e", "-", "3", "-", "5", "-", "s", "o", "n", "n", "e", "t", "-", "2", "0", "2", "4", "1", "0", "2", "2">>,
       <<"S", "o", "n", "n", "e", "t", " ", "3", ".", "5">>>>,
     <<<<"c", "l", "a", "u", "d", "e", "-", "3", "-", "5", "-", "h", "a", "i", "k", "u", "-", "2", "0", "2", "4", "1", "0", "2", "2">>,
       <<"H", "a", "i", "k", "u", " ", "3", ".", "5">>>>,
     <<<<"c", "l", "a", "u", "d", "e", "-", "3", "-", "o", "p", "u", "s", "-", "2", "0", "2", "4", "0", "2", "2", "9">>,
       <<"O", "p", "u", "s", " ", "3">>>>,
     <<<<"c", "l", "a", "u", "d", "e", "-", "3", "-", "s", "o", "n", "n", "e", "t", "-", "2", "0", "2", "4", "0", "2", "2", "9">>,
       <<"S", "o", "n", "n", "e", "t", " ", "3">>>>,
     <<<<"c", "l", "a", "u", "d", "e", "-", "3", "-", "h", "a", "i", "k", "u", "-", "2", "0", "2", "4", "0", "3", "0", "7">>,
       <<"H", "a", "i", "k", "u", " ", "3">>>>,
     <<<<"g", "p", "t", "-", "4", "o">>,
       <<"G", "P", "T", "-", "4", "o">>>>,
     <<<<"g", "p", "t", "-", "4", "o", "-", "m", "i", "n", "i">>,
       <<"G", "P", "T", "-", "4", "o", " ", "M", "i", "n", "i">>>>,
     <<<<"g", "p", "t", "-", "4", "-", "t", "u", "r", "b", "o">>,
       <<"G", "P", "T", "-", "4", " ", "T", "u", "r", "b", "o">>>>,
     <<<<"g", "p", "t", "-", "5">>,
       <<"G", "P", "T", "-", "5">>>>,
     <<<<"g", "p", "t", "-", "5", ".", "1">>,
       <<"G", "P", "T", "-", "5", ".", "1">>>>,
     <<<<"o", "1", "-", "p", "r", "e", "v", "i", "e", "w">>,
       <<"o", "1", " ", "P", "r", "e", "v", "i", "e", "w">>>>,
     <<<<"o", "1", "-", "m", "i", "n", "i">>,
       <<"o", "1", " ", "M", "i", "n", "i">>>>,
     <<<<"o", "3", "-", "m", "i", "n", "i">>,
       <<"o", "3", " ", "M", "i", "n", "i">>>>,
     <<<<"g", "e", "m", "i", "n", "i", "-", "2", ".", "0", "-", "f", "l", "a", "s", "h">>,
       <<"G", "e", "m", "i", "n", "i", " ", "2", ".", "0", " ", "F", "l", "a", "s", "h">>>>,
     <<<<"g", "e", "m", "i", "n", "i", "-", "3", "-", "f", "l", "a", "s", "h", "-", "p", "r", "e", "v", "i", "e", "w">>,
       <<"G", "e", "m", "i", "n", "i", " ", "3", " ", "F", "l", "a", "s", "h">>>>,
     <<<<"g", "e", "m", "i", "n", "i", "-", "1", ".", "5", "-", "p", "r", "o">>,
       <<"G", "e", "m", "i", "n", "i", " ", "1", ".", "5", " ", "P", "r", "o">>>>,
     <<<<"d", "e", "e", "p", "s", "e", "e", "k", "-", "c", "h", "a", "t">>,
       <<"D", "e", "e", "p", "S", "e", "e", "k", " ", "C", "h", "a", "t">>>>,
     <<<<"d", "e", "e", "p", "s", "e", "e", "k", "-", "c", "o", "d", "e", "r">>,
       <<"D", "e", "e", "p", "S", "e", "e", "k", " ", "C", "o", "d", "e", "r">>>> >>

ClaudeDash == <<"c", "l", "a", "u", "d", "e", "-">>

getModelDisplayName(modelId) ==
  IF MapHas(modelNames, modelId) THEN Val(MapGet(modelNames, modelId))
  ELSE LET parts == Split(SubSeq(modelId, Len(ClaudeDash) + 1, Len(modelId)), "-")
       IN IF StartsWith(modelId, ClaudeDash) /\ Len(parts) >= 2
          THEN Capitalize(parts[1]) \o <<" ">> \o parts[2]
          ELSE Capitalize(modelId)

getProviderDisplayName(providerId) ==
  CASE providerId = "anthropic" -> "Anthropic"
    [] providerId = "openai"    -> "OpenAI"
    [] providerId = "google"    -> "Google"
    [] providerId = "mistral"   -> "Mistral"
    [] providerId = "meta"      -> "Meta"
    [] providerId = "deepseek"  -> "DeepSeek"
    [] providerId = "unknown"   -> "Other"
    [] OTHER                    -> providerId

\* ------------------------------------------------------------------------
\* Stats calculator: model and provider ranking
\* ------------------------------------------------------------------------

\* .slice(0, 3) keeps this many entries.
TopCount == 3

\* SortOrder keeping, among equal counts, the later index first.
SortOrder_Unstable(counts) ==
  LET n == Len(counts)
      Rank(i) == 1 + Cardinality({j \in 1..n : counts[j] > counts[i]
                                                 \/ (counts[j] = counts[i] /\ j > i)})
  IN [p \in 1..n |-> CHOOSE i \in 1..n : Rank(i) = p]

\* Array.prototype.sort((a, b) => b.count - a.count) on the counts of an
\* array: the indices of the array in sorted order. The sort is stable, so
\* elements of equal count keep their order.
SortOrder(counts) ==
  LET n == Len(counts)
      Rank(i) == 1 + Cardinality({j \in 1..n : counts[j] > counts[i]
                                                 \/ (counts[j] = counts[i] /\ j < i)})
  IN [p \in 1..n |-> CHOOSE i \in 1..n : Rank(i) = p]

\* Percentage with the ratio upside down: totalTokens / count * 100.
Percentage_Inverted(count, totalTokens) ==
  IF totalTokens > 0 THEN Frac(totalTokens * 100, count) ELSE FracZero

\* totalTokens > 0 ? (count / totalTokens) * 100 : 0
Percentage(count, totalTokens) ==
  IF totalTokens > 0 THEN Frac(count * 100, totalTokens) ELSE FracZero

\* if (tokens <= 0) continue
TokensCount(tokens) == ~(tokens <= 0)

\* The loop over modelTokenTotals from entry k on: acc holds modelStats and
\* providerCounts.
RECURSIVE BuildModelStats(_, _, _)
BuildModelStats(usageSummary, k, acc) ==
  IF k > Len(usageSummary.modelTokenTotals) THEN acc
  ELSE LET modelId    == usageSummary.modelTokenTotals[k][1]
           tokens     == usageSummary.modelTokenTotals[k][2]
           providerId == resolveProviderId(modelId)
           credits    == OrZero(MapGet(usageSummary.modelCreditTotals, modelId))
       IN IF ~TokensCount(tokens) THEN BuildModelStats(usageSummary, k + 1, acc)
          ELSE BuildModelStats(usageSummary, k + 1,
                 [modelStats |->
                    Append(acc.modelStats,
                           [id         |-> modelId,
                            name       |-> getModelDisplayName(modelId),
                            providerId |-> providerId,
                            count      |-> tokens,
                            percentage |-> Percentage(tokens, usageSummary.totalTokens),
                            credits    |-> credits]),
                  providerCounts |->
                    MapSet(acc.providerCounts, providerId,
                           OrZero(MapGet(acc.providerCounts, providerId)) + tokens)])

\* TopModels ranking the providers' models only up to the third model stat.
ProviderSource_TopOnly(built) ==
  LET top == LET ms    == built.modelStats
                 order == SortOrder([i \in 1..Len(ms) |-> ms[i].count])
             IN [p \in 1..(IF Len(ms) < TopCount THEN Len(ms) ELSE TopCount) |-> ms[order[p]]]
      RECURSIVE Sum(_, _)
      Sum(k, m) == IF k > Len(top) THEN m
                   ELSE Sum(k + 1, MapSet(m, top[k].providerId,
                                          OrZero(MapGet(m, top[k].providerId)) + top[k].count))
  IN Sum(1, <<>>)

\* The providerCounts that topProviders ranks: the map the loop filled.
ProviderSource(built) == built.providerCounts

\* modelStats.sort((a, b) => b.count - a.count).slice(0, 3)
TopModels(modelStats) ==
  LET order == SortOrder([i \in 1..Len(modelStats) |-> modelStats[i].count])
      n     == IF Len(modelStats) < TopCount THEN Len(modelStats) ELSE TopCount
  IN [p \in 1..n |-> modelStats[order[p]]]

\* Array.from(providerCounts.entries()).sort(...).slice(0, 3).map(...)
TopProviders(providerCounts, totalTokens) ==
  LET order == SortOrder([i \in 1..Len(providerCounts) |-> providerCounts[i][2]])
      n     == IF Len(providerCounts) < TopCount THEN Len(providerCounts) ELSE TopCount
  IN [p \in 1..n |->
        [id         |-> providerCounts[order[p]][1],
         name       |-> getProviderDisplayName(providerCounts[order[p]][1]),
         count      |-> providerCounts[order[p]][2],
         percentage |-> Percentage(providerCounts[order[p]][2], totalTokens)]]

\* CacheHitRate over all the tokens, output tokens included.
CacheHitRate_OverAllTokens(usageSummary) ==
  IF usageSummary.totalCacheReadTokens > 0
  THEN Frac(usageSummary.totalCacheReadTokens * 100, usageSummary.totalTokens)
  ELSE FracZero

\* totalCacheReadTokens > 0
\*   ? (totalCacheReadTokens / (totalCacheReadTokens + totalInputTokens)) * 100 : 0
CacheHitRate(usageSummary) ==
  IF usageSummary.totalCacheReadTokens > 0
  THEN Frac(usageSummary.totalCacheReadTokens * 100,
            usageSummary.totalCacheReadTokens + usageSummary.totalInputTokens)
  ELSE FracZero

\* ------------------------------------------------------------------------
\* Stats calculator: streaks
\* ------------------------------------------------------------------------

\* Array.from(dailyActivity.keys()).filter((date) => date.startsWith(String(year)))
DatesOfYear(dailyActivity, y) ==
  SelectSeq([i \in 1..Len(dailyActivity) |-> dailyActivity[i][1]],
            LAMBDA date : StartsWith(date, ToDecimal(y)))

\* Array.prototype.sort() of distinct strings.
SortStrings(dates) ==
  LET n == Len(dates)
      Rank(i) == 1 + Cardinality({j \in 1..n : LexLess(dates[j], dates[i])})
  IN [p \in 1..n |-> dates[CHOOSE i \in 1..n : Rank(i) = p]]

\* The streak counters before the loop over activeDates.
StreakStart ==
  [maxStreak |-> 1, tempStreak |-> 1, tempStreakStart |-> 0,
   maxStreakStart |-> 0, maxStreakEnd |-> 0]

\* ExtendsRun taking a gap of up to two days as consecutive.
ExtendsRun_GapOfTwo(diffDays) == diffDays = 1 \/ diffDays = 2

\* if (diffDays === 1)
ExtendsRun(diffDays) == diffDays = 1

\* NewMax overwriting the recorded run on equal length.
NewMax_OrEqual(tempStreak, maxStreak) == tempStreak >= maxStreak

\* if (tempStreak > maxStreak)
NewMax(tempStreak, maxStreak) == tempStreak > maxStreak

\* for (let i = 1; i < activeDates.length; i++), from index i on (0-based as
\* in the code; activeDates[i] is the TLA+ element i + 1).
RECURSIVE StreakLoop(_, _, _)
StreakLoop(activeDates, i, st) ==
  IF ~(i < Len(activeDates)) THEN st
  ELSE LET prevDate == DateParse(activeDates[i])
           currDate == DateParse(activeDates[i + 1])
           diffDays == DiffDays(currDate - prevDate)
       IN StreakLoop(activeDates, i + 1,
            IF ExtendsRun(diffDays)
            THEN IF NewMax(st.tempStreak + 1, st.maxStreak)
                 THEN [st EXCEPT !.tempStreak     = st.tempStreak + 1,
                                 !.maxStreak      = st.tempStreak + 1,
                                 !.maxStreakStart = st.tempStreakStart,
                                 !.maxStreakEnd   = i]
                 ELSE [st EXCEPT !.tempStreak = st.tempStreak + 1]
            ELSE [st EXCEPT !.tempStreak = 1, !.tempStreakStart = i])

\* The while loop of countStreakBackwards.
RECURSIVE StreakWalk(_, _, _, _)
StreakWalk(dailyActivity, checkDate, streak, tz) ==
  IF MapHas(dailyActivity, formatDateKey(checkDate - HoursPerDay, tz))
  THEN StreakWalk(dailyActivity, checkDate - HoursPerDay, streak + 1, tz)
  ELSE streak

countStreakBackwards(dailyActivity, startDate, tz) ==
  StreakWalk(dailyActivity, startDate, 1, tz)

\* The current streak of lines 202-209; t is the time new Date() and
\* Date.now() give.
CurrentStreak(dailyActivity, t, tz) ==
  LET today     == formatDateKey(t, tz)
      yesterday == formatDateKey(t - HoursPerDay, tz)
  IN IF MapHas(dailyActivity, today) THEN countStreakBackwards(dailyActivity, t, tz)
     ELSE IF MapHas(dailyActivity, yesterday)
          THEN countStreakBackwards(dailyActivity, t - HoursPerDay, tz)
          ELSE 0

\* calculateStreaks without the early return for a year that has no date.
calculateStreaks_NoEarlyReturn(dailyActivity, y, t, tz) ==
  LET activeDates == SortStrings(DatesOfYear(dailyActivity, y))
      st          == StreakLoop(activeDates, 1, StreakStart)
  IN [maxStreak     |-> st.maxStreak,
      currentStreak |-> CurrentStreak(dailyActivity, t, tz),
      maxStreakDays |-> {activeDates[i + 1] :
                           i \in {j \in st.maxStreakStart..st.maxStreakEnd : j + 1 <= Len(activeDates)}}]

calculateStreaks(dailyActivity, y, t, tz) ==
  LET activeDates == SortStrings(DatesOfYear(dailyActivity, y))
      st          == StreakLoop(activeDates, 1, StreakStart)
  IN IF Len(activeDates) = 0
     THEN [maxStreak |-> 0, currentStreak |-> 0, maxStreakDays |-> {}]
     ELSE [maxStreak     |-> st.maxStreak,
           currentStreak |-> CurrentStreak(dailyActivity, t, tz),
           maxStreakDays |-> {activeDates[i + 1] : i \in st.maxStreakStart..st.maxStreakEnd}]

\* ------------------------------------------------------------------------
\* Stats calculator: most active day and weekdays
\* ------------------------------------------------------------------------

monthNames ==
  << <<"J", "a", "n">>, <<"F", "e", "b">>, <<"M", "a", "r">>, <<"A", "p", "r">>,
     <<"M", "a", "y">>, <<"J", "u", "n">>, <<"J", "u", "l">>, <<"A", "u", "g">>,
     <<"S", "e", "p">>, <<"O", "c", "t">>, <<"N", "o", "v">>, <<"D", "e", "c">> >>

\* Beats taking a later date of equal count.
Beats_OrEqual(count, maxCount) == count >= maxCount

\* if (count > maxCount)
Beats(count, maxCount) == count > maxCount

\* The loop of findMostActiveDay from entry k on.
RECURSIVE MostActiveLoop(_, _, _)
MostActiveLoop(dailyActivity, k, best) ==
  IF k > Len(dailyActivity) THEN best
  ELSE MostActiveLoop(dailyActivity, k + 1,
         IF Beats(dailyActivity[k][2], best.maxCount)
         THEN [maxDate |-> dailyActivity[k][1], maxCount |-> dailyActivity[k][2]]
         ELSE best)

\* None is null.
findMostActiveDay(dailyActivity) ==
  LET best    == MostActiveLoop(dailyActivity, 1, [maxDate |-> <<>>, maxCount |-> 0])
      parts   == Split(best.maxDate, "-")
      dateObj == CivilFromDays(DaysFromCivil(ToNumber(parts[1]), ToNumber(parts[2]),
                                             ToNumber(parts[3])))
  IN IF Len(dailyActivity) = 0 THEN None
     ELSE IF best.maxDate = <<>> THEN None
     ELSE Some([date          |-> best.maxDate,
                count         |-> best.maxCount,
                formattedDate |-> monthNames[dateObj.month] \o <<" ">> \o ToDecimal(dateObj.day)])

\* new Date(entryDate).getDay()
EntryWeekday(entryDate, tz) == GetDay(DateParse(entryDate), tz)

\* The loop that builds weekdayCounts, from entry k on (weekday w is the
\* TLA+ element w + 1).
RECURSIVE WeekdayCounts(_, _, _, _)
WeekdayCounts(dailyActivity, k, counts, tz) ==
  IF k > Len(dailyActivity) THEN counts
  ELSE WeekdayCounts(dailyActivity, k + 1,
         [counts EXCEPT ![EntryWeekday(dailyActivity[k][1], tz) + 1] = @ + dailyActivity[k][2]],
         tz)

WEEKDAY_NAMES_FULL ==
  <<"Sunday", "Monday", "Tuesday", "Wednesday", "Thursday", "Friday", "Saturday">>

\* The loop of buildWeekdayActivity from index i on.
RECURSIVE WeekdayLoop(_, _, _)
WeekdayLoop(counts, i, best) ==
  IF ~(i < 7) THEN best
  ELSE WeekdayLoop(counts, i + 1,
         IF counts[i + 1] > best.maxCount
         THEN [mostActiveDay |-> i, maxCount |-> counts[i + 1]]
         ELSE best)

buildWeekdayActivity(counts) ==
  LET best == WeekdayLoop(counts, 0, [mostActiveDay |-> 0, maxCount |-> 0])
  IN [counts            |-> counts,
      mostActiveDay     |-> best.mostActiveDay,
      mostActiveDayName |-> WEEKDAY_NAMES_FULL[best.mostActiveDay + 1],
      maxCount          |-> best.maxCount]

\* ------------------------------------------------------------------------
\* calculateAmpStats after the collector has returned
\* ------------------------------------------------------------------------

\* The AmpCodeStats calculateAmpStats returns for a usage summary, with t
\* the time the clock gives.
AmpCodeStats(usageSummary, y, t, tz) ==
  LET dailyActivity   == usageSummary.dailyActivity
      weekdayCounts   == WeekdayCounts(dailyActivity, 1, <<0, 0, 0, 0, 0, 0, 0>>, tz)
      built           == BuildModelStats(usageSummary, 1,
                                         [modelStats |-> <<>>, providerCounts |-> <<>>])
      streaks         == calculateStreaks(dailyActivity, y, t, tz)
      firstSessionDate == IF IsSome(usageSummary.firstTimestamp)
                          THEN Val(usageSummary.firstTimestamp) ELSE t
  IN [year                  |-> y,
      firstSessionDate      |-> firstSessionDate,
      daysSinceFirstSession |-> (t - firstSessionDate) \div HoursPerDay,
      totalSessions         |-> usageSummary.totalSessions,
      totalMessages         |-> usageSummary.totalMessages,
      totalProjects         |-> Cardinality(usageSummary.projects),
      totalInputTokens      |-> usageSummary.totalInputTokens,
      totalOutputTokens     |-> usageSummary.totalOutputTokens,
      totalTokens           |-> usageSummary.totalTokens,
      totalCacheReadTokens  |-> usageSummary.totalCacheReadTokens,
      cacheHitRate          |-> CacheHitRate(usageSummary),
      totalCredits          |-> usageSummary.totalCredits,
      hasCredits            |-> usageSummary.totalCredits > 0,
      topModels             |-> TopModels(built.modelStats),
      topProviders          |-> TopProviders(ProviderSource(built), usageSummary.totalTokens),
      maxStreak             |-> streaks.maxStreak,
      currentStreak         |-> streaks.currentStreak,
      maxStreakDays         |-> streaks.maxStreakDays,
      dailyActivity         |-> dailyActivity,
      mostActiveDay         |-> findMostActiveDay(dailyActivity),
      weekdayActivity       |-> buildWeekdayActivity(weekdayCounts)]

\* calculateAmpStats, lines 7-85: the statistics of the summary the collector
\* returned.
CalculateAmpStats ==
  /\ pc = "done"
  /\ stats = None
  /\ stats' = Some(AmpCodeStats(summary, year, now, tzOffset))
  /\ UNCHANGED <<collector, now, call, cli>>

\* ------------------------------------------------------------------------
\* The pipeline on one thread of usage entries
\* ------------------------------------------------------------------------

\* The largest number of messages of the thread.
MaxUsage == 4

ClaudeOpus   == <<"c", "l", "a", "u", "d", "e", "-", "3", "-", "o", "p", "u", "s">>
LlamaModel   == <<"l", "l", "a", "m", "a", "-", "3">>
MysteryModel == <<"m", "y", "s", "t", "e", "r", "y", "-", "l", "l", "m">>
GeminiModel  == <<"g", "e", "m", "i", "n", "i", "-", "1", ".", "5", "-", "p", "r", "o">>

\* Assistant messages: 7 tokens for claude-4, 3 each for claude-3-opus,
\* gpt-4o and llama-3, 2 for mystery-llm, none for gemini-1.5-pro, and 2 that
\* name no model.
UseClaude  == Message("assistant", Some(Usage(Some(ClaudeModel), Some(4), Some(2), Some(1), Some(2))), None)
UseOpus    == Message("assistant", Some(Usage(Some(ClaudeOpus), Some(1), None, Some(2), Some(1))), None)
UseGpt     == Message("assistant", Some(Usage(Some(GptModel), Some(3), None, None, None)), None)
UseLlama   == Message("assistant", Some(Usage(Some(LlamaModel), None, Some(1), Some(2), Some(1))), None)
UseMystery == Message("assistant", Some(Usage(Some(MysteryModel), Some(1), None, Some(1), None)), None)
UseGemini  == Message("assistant", Some(Usage(Some(GeminiModel), None, None, None, None)), None)

UsagePool == {UseClaude, UseOpus, UseGpt, UseLlama, UseMystery, UseGemini, AsstNoModel}

UsageLists == UNION { [1..n -> UsagePool] : n \in 0..MaxUsage }

\* One thread file of the requested year holding a list of usage entries.
InitRank ==
  /\ tzOffset = 0
  /\ year = 2025
  /\ dirExists = TRUE
  /\ \E msgs \in UsageLists :
       dirEntries = <<ThreadFile("1", Thread(Some(NewYear2025 + HoursPerDay), Some(msgs)))>>
  /\ pc = "start"
  /\ threadFiles = <<>>
  /\ fileIdx = 1
  /\ messages = <<>>
  /\ msgIdx = 1
  /\ summary = EmptySummary
  /\ now = NewYear2025 + 2 * HoursPerDay
  /\ stats = None
  /\ cli = NoCli
  /\ call = NoCall

\* calculateAmpStats: the collector, then the statistics.
NextStats == Next \/ CalculateAmpStats

SpecRank == InitRank /\ [][NextStats]_vars

\* The statistics have been calculated.
Calculated == pc = "done" /\ IsSome(stats)

\* a = b for fractions.
FracEq(a, b) == a.num * b.den = b.num * a.den

\* a <= b for fractions of positive denominator.
FracLeq(a, b) == a.num * b.den <= b.num * a.den

\* The position of a key in a map.
KeyIndex(m, k) == CHOOSE i \in 1..Len(m) : m[i][1] = k

\* The positions of the models with a token total above 0.
WithTokens(totals) == {i \in 1..Len(totals) : totals[i][2] > 0}

\* C12: topModels holds only models with a token total above 0, at most 3 of
\* them and all of them when there are at most 3, in non-increasing order of
\* token count; no model left out has more tokens than one kept; models of
\* equal token count keep the order of modelTokenTotals; and each percentage
\* is tokens / totalTokens * 100.
C12_ModelRanking ==
  Calculated =>
    LET top    == Val(stats).topModels
        totals == summary.modelTokenTotals
        kept   == {KeyIndex(totals, top[p].id) : p \in 1..Len(top)}
    IN /\ \A p \in 1..Len(top) :
            /\ MapHas(totals, top[p].id)
            /\ top[p].count = totals[KeyIndex(totals, top[p].id)][2]
            /\ top[p].count > 0
            /\ FracEq(top[p].percentage, Frac(top[p].count * 100, summary.totalTokens))
       /\ Len(top) <= 3
       /\ Cardinality(kept) = Len(top)
       /\ Cardinality(WithTokens(totals)) <= 3 => kept = WithTokens(totals)
       /\ Cardinality(WithTokens(totals)) > 3 => Len(top) = 3
       /\ \A p, q \in 1..Len(top) :
            p < q => /\ top[p].count >= top[q].count
                     /\ top[p].count = top[q].count
                          => KeyIndex(totals, top[p].id) < KeyIndex(totals, top[q].id)
       /\ \A i \in WithTokens(totals) \ kept : \A p \in 1..Len(top) :
            /\ totals[i][2] <= top[p].count
            /\ totals[i][2] = top[p].count => KeyIndex(totals, top[p].id) < i

\* More than 3 models have tokens, and one of them left out ties with two
\* that are kept.
C12_Witness ==
  /\ Calculated
  /\ LET top    == Val(stats).topModels
         totals == summary.modelTokenTotals
     IN /\ Cardinality(WithTokens(totals)) > 3
        /\ \E i \in WithTokens(totals), p, q \in 1..Len(top) :
             /\ \A r \in 1..Len(top) : top[r].id # totals[i][1]
             /\ totals[i][2] = top[p].count
             /\ p < q /\ top[p].count = top[q].count

\* C13: every percentage of topModels and topProviders lies in [0, 100], and
\* is 0 when totalTokens is 0.
C13_PercentagesInRange ==
  Calculated =>
    LET InRange(e) == /\ e.percentage.den > 0
                      /\ FracLeq(FracZero, e.percentage)
                      /\ FracLeq(e.percentage, Frac(100, 1))
                      /\ summary.totalTokens = 0 => FracEq(e.percentage, FracZero)
    IN /\ \A p \in 1..Len(Val(stats).topModels) : InRange(Val(stats).topModels[p])
       /\ \A p \in 1..Len(Val(stats).topProviders) : InRange(Val(stats).topProviders[p])

\* A summary with tokens that name no model: the percentages of the models
\* and of the providers add up to less than 100.
C13_Witness ==
  /\ Calculated
  /\ Len(Val(stats).topModels) = 2
  /\ Len(Val(stats).topProviders) = 2
  /\ \A p \in 1..2 : /\ FracLeq(Frac(1, 1), Val(stats).topModels[p].percentage)
                     /\ FracLeq(Frac(1, 1), Val(stats).topProviders[p].percentage)
  /\ Val(stats).topModels[1].count + Val(stats).topModels[2].count < summary.totalTokens

\* The providers resolveProviderId can give.
ProviderIds == {"anthropic", "openai", "google", "mistral", "meta", "deepseek", "unknown"}

\* The token total of the models from entry k on that resolve to a provider.
RECURSIVE ProviderTotal(_, _, _)
ProviderTotal(totals, k, providerId) ==
  IF k > Len(totals) THEN 0
  ELSE (IF resolveProviderId(totals[k][1]) = providerId THEN totals[k][2] ELSE 0)
         + ProviderTotal(totals, k + 1, providerId)

\* C15: each entry of topProviders holds the sum of the token totals of all
\* the models resolved to its provider, no provider appears twice, and
\* topProviders holds the at most 3 largest providers in non-increasing
\* order of total, each with percentage total / totalTokens * 100.
C15_ProviderTotals ==
  Calculated =>
    LET top    == Val(stats).topProviders
        totals == summary.modelTokenTotals
        having == {id \in ProviderIds : ProviderTotal(totals, 1, id) > 0}
        kept   == {top[p].id : p \in 1..Len(top)}
    IN /\ \A p \in 1..Len(top) :
            /\ top[p].id \in having
            /\ top[p].count = ProviderTotal(totals, 1, top[p].id)
            /\ FracEq(top[p].percentage, Frac(top[p].count * 100, summary.totalTokens))
       /\ Cardinality(kept) = Len(top)
       /\ Len(top) = (IF Cardinality(having) < 3 THEN Cardinality(having) ELSE 3)
       /\ \A p, q \in 1..Len(top) : p < q => top[p].count >= top[q].count
       /\ \A id \in having \ kept : \A p \in 1..Len(top) :
            ProviderTotal(totals, 1, id) <= top[p].count

\* A provider's total holds the tokens of a model that is not among the
\* top 3 models.
C15_Witness ==
  /\ Calculated
  /\ LET top    == Val(stats).topProviders
         models == Val(stats).topModels
         totals == summary.modelTokenTotals
     IN \E i \in WithTokens(totals), p \in 1..Len(top) :
          /\ \A r \in 1..Len(models) : models[r].id # totals[i][1]
          /\ resolveProviderId(totals[i][1]) = top[p].id
          /\ top[p].count > totals[i][2]

\* C20: cacheHitRate is cacheRead / (cacheRead + input) * 100 when the
\* cache-read total is above 0, and then lies in (0, 100] with a divisor that
\* is not 0; it is 0 otherwise. The output tokens do not enter into it.
C20_CacheHitRate ==
  Calculated =>
    LET rate      == Val(stats).cacheHitRate
        cacheRead == summary.totalCacheReadTokens
        input     == summary.totalInputTokens
    IN /\ rate.den # 0
       /\ cacheRead > 0 =>
            /\ cacheRead + input # 0
            /\ FracEq(rate, Frac(cacheRead * 100, cacheRead + input))
            /\ ~FracLeq(rate, FracZero)
            /\ FracLeq(rate, Frac(100, 1))
       /\ ~(cacheRead > 0) => FracEq(rate, FracZero)

\* As many cache-read tokens as input tokens, and output tokens as well: the
\* rate is 50.
C20_Witness ==
  /\ Calculated
  /\ summary.totalCacheReadTokens > 0
  /\ summary.totalCacheReadTokens = summary.totalInputTokens
  /\ summary.totalOutputTokens > 0
  /\ FracEq(Val(stats).cacheHitRate, Frac(50, 1))

\* ------------------------------------------------------------------------
\* resolveProviderId called on its own
\* ------------------------------------------------------------------------

\* The largest number of pieces a model id is put together from.
MaxPieces == 3

\* The names the rules look for, and two pieces that hold none of them.
IdPieces ==
  { <<"c", "l", "a", "u", "d", "e">>,
    <<"g", "p", "t">>,
    <<"o", "1">>,
    <<"o", "3">>,
    <<"g", "e", "m", "i", "n", "i">>,
    <<"m", "i", "s", "t", "r", "a", "l">>,
    <<"m", "i", "x", "t", "r", "a", "l">>,
    <<"l", "l", "a", "m", "a">>,
    <<"d", "e", "e", "p", "s", "e", "e", "k">>,
    <<"-", "4", "o">>,
    <<"m", "y", "s", "t", "e", "r", "y", "-", "l", "l", "m">> }

RECURSIVE Concat(_, _)
Concat(pieces, k) == IF k > Len(pieces) THEN <<>> ELSE pieces[k] \o Concat(pieces, k + 1)

ModelIdPool == UNION { {Concat(pieces, 1) : pieces \in [1..n -> IdPieces]} : n \in 1..MaxPieces }

InitProvider ==
  /\ CollectorAtStart(0, 2025)
  /\ now = NewYear2025 + 2 * HoursPerDay
  /\ stats = None
  /\ cli = NoCli
  /\ \E modelId \in ModelIdPool :
       call = [fn |-> "resolveProviderId", arg |-> modelId, returned |-> FALSE, ret |-> <<>>]

\* const providerId = resolveProviderId(modelId)
CallResolveProviderId ==
  /\ call.fn = "resolveProviderId"
  /\ ~call.returned
  /\ call' = [call EXCEPT !.returned = TRUE, !.ret = Some(resolveProviderId(call.arg))]
  /\ UNCHANGED <<collector, now, stats, cli>>

SpecProvider == InitProvider /\ [][CallResolveProviderId]_vars

\* The rules in their stated order: how the id is tested, for which names,
\* and the provider.
ProviderRules ==
  << [test |-> "starts",   names |-> {<<"c", "l", "a", "u", "d", "e">>}, provider |-> "anthropic"],
     [test |-> "starts",   names |-> {<<"g", "p", "t">>, <<"o", "1">>, <<"o", "3">>},
      provider |-> "openai"],
     [test |-> "starts",   names |-> {<<"g", "e", "m", "i", "n", "i">>}, provider |-> "google"],
     [test |-> "contains", names |-> {<<"m", "i", "s", "t", "r", "a", "l">>,
                                      <<"m", "i", "x", "t", "r", "a", "l">>},
      provider |-> "mistral"],
     [test |-> "contains", names |-> {<<"l", "l", "a", "m", "a">>}, provider |-> "meta"],
     [test |-> "contains", names |-> {<<"d", "e", "e", "p", "s", "e", "e", "k">>},
      provider |-> "deepseek"] >>

\* The name stands in the id from position k + 1 on.
StandsAt(id, name, k) ==
  k + Len(name) <= Len(id) /\ \A i \in 1..Len(name) : id[k + i] = name[i]

RuleMatches(rule, id) ==
  \E name \in rule.names :
    IF rule.test = "starts" THEN StandsAt(id, name, 0)
    ELSE \E k \in 0..Len(id) : StandsAt(id, name, k)

MatchingRules(id) == {r \in 1..Len(ProviderRules) : RuleMatches(ProviderRules[r], id)}

\* C14: the provider of a model id is that of the first rule, in the stated
\* order, that matches it, and unknown when no rule matches; it is one of the
\* seven providers.
C14_FirstMatchingRule ==
  (call.fn = "resolveProviderId" /\ call.returned) =>
    /\ call.ret \in {<<id>> : id \in ProviderIds}
    /\ call.ret = (IF MatchingRules(call.arg) = {} THEN <<"unknown">>
                   ELSE <<ProviderRules[Least(MatchingRules(call.arg))].provider>>)

\* An id that starts with claude and holds llama resolved to anthropic.
C14_Witness ==
  /\ call.fn = "resolveProviderId"
  /\ call.returned
  /\ {1, 5} \subseteq MatchingRules(call.arg)
  /\ call.ret = <<"anthropic">>

\* ------------------------------------------------------------------------
\* calculateStreaks called on its own
\* ------------------------------------------------------------------------

\* The largest number of dates of a dailyActivity map.
MaxDays == 4

\* The day number of 2025-01-01.
FirstDay2025 == NewYear2025 \div HoursPerDay

\* The date keys of 2024-12-30 to 2025-01-05.
DayKeys == {formatDateKey(d * HoursPerDay, 0) : d \in (FirstDay2025 - 2)..(FirstDay2025 + 4)}

\* Maps of up to n distinct date keys, in any insertion order, each with a
\* count among the given ones.
ActivityMaps(n, counts) ==
  UNION { { m \in [1..k -> DayKeys \X counts] :
              \A i, j \in 1..k : m[i][1] = m[j][1] => i = j } : k \in 0..n }

\* The times the clock may give: early and late on 2025-01-03 and 2025-01-06
\* (UTC).
ClockTimes == {NewYear2025 + d * HoursPerDay + h : d \in {2, 5}, h \in {2, 20}}

InitStreak ==
  /\ \E tz \in TimeZones : CollectorAtStart(tz, 2025)
  /\ now \in ClockTimes
  /\ stats = None
  /\ cli = NoCli
  /\ \E dailyActivity \in ActivityMaps(MaxDays, {1}), y \in Years :
       call = [fn |-> "calculateStreaks",
               arg |-> [dailyActivity |-> dailyActivity, year |-> y],
               returned |-> FALSE, ret |-> <<>>]

\* const { maxStreak, currentStreak, maxStreakDays } = calculateStreaks(dailyActivity, year)
CallCalculateStreaks ==
  /\ call.fn = "calculateStreaks"
  /\ ~call.returned
  /\ call' = [call EXCEPT
                !.returned = TRUE,
                !.ret = Some(calculateStreaks(call.arg.dailyActivity, call.arg.year,
                                              now, tzOffset))]
  /\ UNCHANGED <<collector, now, stats, cli>>

SpecStreak == InitStreak /\ [][CallCalculateStreaks]_vars

\* The day numbers around the turn of the year 2025, and the day number of
\* the calendar date a key names.
KeyDays == (FirstDay2025 - 5)..(FirstDay2025 + 10)

DayOfKey(key) == CHOOSE d \in KeyDays : formatDateKey(d * HoursPerDay, 0) = key

\* The days of a dailyActivity map, and those that belong to a year.
ActiveDays(dailyActivity) == {DayOfKey(dailyActivity[i][1]) : i \in 1..Len(dailyActivity)}

ActiveDaysOf(dailyActivity, y) == {d \in ActiveDays(dailyActivity) : CivilFromDays(d).year = y}

\* The length of the longest run of consecutive days in a set of days.
LongestRun(days) ==
  IF days = {} THEN 0
  ELSE LET runs == {<<a, b>> \in days \X days : a <= b /\ \A d \in a..b : d \in days}
       IN CHOOSE n \in 1..Cardinality(days) :
            /\ \E r \in runs : r[2] - r[1] + 1 = n
            /\ \A r \in runs : r[2] - r[1] + 1 <= n

\* The number of consecutive days of a set counted backward from day d,
\* which is in the set.
RunBackFrom(days, d) ==
  CHOOSE n \in 1..Cardinality(days) :
    /\ \A k \in 0..(n - 1) : d - k \in days
    /\ d - n \notin days

StreaksReturned == call.fn = "calculateStreaks" /\ call.returned

\* C16: maxStreak is the length of the longest run of consecutive calendar
\* days among the dates of dailyActivity that belong to the year: 0 when the
\* year has none, at least 1 otherwise.
C16_MaxStreak ==
  StreaksReturned =>
    LET days == ActiveDaysOf(call.arg.dailyActivity, call.arg.year)
    IN /\ Val(call.ret).maxStreak = LongestRun(days)
       /\ days = {} => Val(call.ret).maxStreak = 0
       /\ days # {} => Val(call.ret).maxStreak >= 1

\* Active on January 1, 2, 3 and 5 of 2025: the longest streak of 2025 is 3.
C16_Witness ==
  /\ StreaksReturned
  /\ call.arg.year = 2025
  /\ ActiveDays(call.arg.dailyActivity)
       = {FirstDay2025, FirstDay2025 + 1, FirstDay2025 + 2, FirstDay2025 + 4}
  /\ Val(call.ret).maxStreak = 3

StreakDays == {DayOfKey(key) : key \in Val(call.ret).maxStreakDays}

\* The first days of the runs of n consecutive days of a set.
RunStarts(days, n) == {a \in days : \A d \in a..(a + n - 1) : d \in days}

\* C23: maxStreakDays holds exactly maxStreak dates, all of them keys of
\* dailyActivity in the year; they are the consecutive days of the earliest
\* of the longest runs; the set is empty exactly when maxStreak is 0, and
\* it is the earliest active date alone when no two active days are
\* adjacent.
C23_MaxStreakDays ==
  StreaksReturned =>
    LET days    == ActiveDaysOf(call.arg.dailyActivity, call.arg.year)
        longest == LongestRun(days)
        ret     == Val(call.ret)
    IN /\ Cardinality(ret.maxStreakDays) = ret.maxStreak
       /\ \A key \in ret.maxStreakDays :
            /\ MapHas(call.arg.dailyActivity, key)
            /\ CivilFromDays(DayOfKey(key)).year = call.arg.year
       /\ ret.maxStreakDays = {} <=> ret.maxStreak = 0
       /\ days # {} =>
            LET first == Least(RunStarts(days, longest))
            IN StreakDays = first..(first + longest - 1)
       /\ (days # {} /\ \A d \in days : d + 1 \notin days) =>
            StreakDays = {Least(days)}

\* Active on January 1, 2, 4 and 5 of 2025: two runs of two days, and the
\* run of January 1 and 2 is recorded.
C23_Witness ==
  /\ StreaksReturned
  /\ call.arg.year = 2025
  /\ ActiveDays(call.arg.dailyActivity)
       = {FirstDay2025, FirstDay2025 + 1, FirstDay2025 + 3, FirstDay2025 + 4}
  /\ StreakDays = {FirstDay2025, FirstDay2025 + 1}

\* ------------------------------------------------------------------------
\* findMostActiveDay called on its own
\* ------------------------------------------------------------------------

\* The largest number of dates of the dailyActivity map of findMostActiveDay.
MaxEntries == 3

InitMostActive ==
  /\ CollectorAtStart(0, 2025)
  /\ now = NewYear2025 + 2 * HoursPerDay
  /\ stats = None
  /\ cli = NoCli
  /\ \E dailyActivity \in ActivityMaps(MaxEntries, {1, 2}) :
       call = [fn |-> "findMostActiveDay", arg |-> dailyActivity,
               returned |-> FALSE, ret |-> <<>>]

\* const mostActiveDay = findMostActiveDay(dailyActivity)
CallFindMostActiveDay ==
  /\ call.fn = "findMostActiveDay"
  /\ ~call.returned
  /\ call' = [call EXCEPT !.returned = TRUE, !.ret = findMostActiveDay(call.arg)]
  /\ UNCHANGED <<collector, now, stats, cli>>

SpecMostActive == InitMostActive /\ [][CallFindMostActiveDay]_vars

MostActiveReturned == call.fn = "findMostActiveDay" /\ call.returned

\* C18: mostActiveDay is none when dailyActivity is empty; otherwise its
\* count is the largest count of the whole map and its date is the first key,
\* in the order of the map, with that count.
C18_MostActiveDay ==
  MostActiveReturned =>
    LET dailyActivity == call.arg
    IN IF Len(dailyActivity) = 0 THEN call.ret = None
       ELSE /\ IsSome(call.ret)
            /\ \A i \in 1..Len(dailyActivity) : dailyActivity[i][2] <= Val(call.ret).count
            /\ \E i \in 1..Len(dailyActivity) :
                 /\ dailyActivity[i] = <<Val(call.ret).date, Val(call.ret).count>>
                 /\ \A j \in 1..(i - 1) : dailyActivity[j][2] < Val(call.ret).count

\* Two dates of different years share the largest count, after a date with
\* a smaller one: the earlier of the two in the map is returned.
C18_Witness ==
  /\ MostActiveReturned
  /\ Len(call.arg) = 3
  /\ call.arg[1][2] < call.arg[2][2]
  /\ call.arg[2][2] = call.arg[3][2]
  /\ CivilFromDays(DayOfKey(call.arg[2][1])).year # CivilFromDays(DayOfKey(call.arg[3][1])).year
  /\ Val(call.ret).date = call.arg[2][1]

\* ------------------------------------------------------------------------
\* The pipeline on threads of the first week of 2025
\* ------------------------------------------------------------------------

\* The largest number of thread files of the week.
MaxThreads == 3

\* Noon (UTC) of 2025-01-01 to 2025-01-07.
WeekTimes == {NewYear2025 + d * HoursPerDay + 12 : d \in 0..6}

ThreadIds == <<"1", "2", "3", "4", "5", "6", "7", "8", "9">>

\* Listings of up to MaxThreads thread files T-1.json, T-2.json, ... created
\* in that week, each with one user message.
WeekListings ==
  UNION { { [i \in 1..n |-> ThreadFile(ThreadIds[i], Thread(Some(created[i]), Some(<<UserPlain>>)))]
              : created \in [1..n -> WeekTimes] } : n \in 0..MaxThreads }

InitWeek ==
  /\ tzOffset \in TimeZones
  /\ year = 2025
  /\ dirExists = TRUE
  /\ dirEntries \in WeekListings
  /\ pc = "start"
  /\ threadFiles = <<>>
  /\ fileIdx = 1
  /\ messages = <<>>
  /\ msgIdx = 1
  /\ summary = EmptySummary
  /\ now = NewYear2025 + 2 * HoursPerDay
  /\ stats = None
  /\ cli = NoCli
  /\ call = NoCall

SpecWeek == InitWeek /\ [][NextStats]_vars

\* The sum of the counts of the entries from k on whose date is a weekday w
\* (0 = Sunday) of the calendar; 1970-01-01 was a Thursday.
RECURSIVE WeekdaySum(_, _, _)
WeekdaySum(dailyActivity, k, w) ==
  IF k > Len(dailyActivity) THEN 0
  ELSE (IF (DayOfKey(dailyActivity[k][1]) + 4) % 7 = w THEN dailyActivity[k][2] ELSE 0)
         + WeekdaySum(dailyActivity, k + 1, w)

\* C19: in every time zone counts[w] is the sum of the counts of the dates
\* whose calendar weekday is w, mostActiveDay is the lowest index among the
\* largest sums, and maxCount is that sum.
C19_WeekdayOfTheDate ==
  Calculated =>
    LET activity == Val(stats).weekdayActivity
        sums     == [w \in 0..6 |-> WeekdaySum(summary.dailyActivity, 1, w)]
    IN /\ \A w \in 0..6 : activity.counts[w + 1] = sums[w]
       /\ \A w \in 0..6 : sums[w] <= sums[activity.mostActiveDay]
       /\ \A w \in 0..(activity.mostActiveDay - 1) : sums[w] < sums[activity.mostActiveDay]
       /\ activity.maxCount = sums[activity.mostActiveDay]

\* ------------------------------------------------------------------------
\* The pipeline on threads of the days around 2025-11-02
\* ------------------------------------------------------------------------

\* The largest number of thread files of those days.
MaxAutumn == 3

\* Noon (UTC) of 2025-10-31 to 2025-11-03.
AutumnTimes == {(DaysFromCivil(2025, 11, 2) + d) * HoursPerDay + 12 : d \in -2..1}

\* Listings of up to MaxAutumn thread files created on those days, each with
\* one user message.
AutumnListings ==
  UNION { { [i \in 1..n |-> ThreadFile(ThreadIds[i], Thread(Some(created[i]), Some(<<UserPlain>>)))]
              : created \in [1..n -> AutumnTimes] } : n \in 0..MaxAutumn }

\* The times the clock may give: 2025-11-03 at 07:00 and at 12:00, and
\* 2025-11-05 at 12:00 (UTC).
AutumnClock ==
  { DaysFromCivil(2025, 11, 3) * HoursPerDay + 7,
    DaysFromCivil(2025, 11, 3) * HoursPerDay + 12,
    DaysFromCivil(2025, 11, 5) * HoursPerDay + 12 }

InitAutumn ==
  /\ tzOffset \in TimeZones
  /\ year = 2025
  /\ dirExists = TRUE
  /\ dirEntries \in AutumnListings
  /\ pc = "start"
  /\ threadFiles = <<>>
  /\ fileIdx = 1
  /\ messages = <<>>
  /\ msgIdx = 1
  /\ summary = EmptySummary
  /\ now \in AutumnClock
  /\ stats = None
  /\ cli = NoCli
  /\ call = NoCall

SpecAutumn == InitAutumn /\ [][NextStats]_vars

\* C21: the statistics are those of the summary and the year alone: they are
\* the same at whatever time of the clock the calculation runs.
C21_NoWallClock ==
  Calculated =>
    \A t \in AutumnClock :
      LET other == AmpCodeStats(summary, year, t, tzOffset)
      IN /\ other.currentStreak = Val(stats).currentStreak
         /\ other.daysSinceFirstSession = Val(stats).daysSinceFirstSession
         /\ other.firstSessionDate = Val(stats).firstSessionDate
         /\ other = Val(stats)

\* C26: with the collector feeding the calculator for the same year,
\* currentStreak is at most maxStreak, and it is 0 when neither today nor
\* yesterday is a day of the requested year.
C26_CurrentAtMostMax ==
  Calculated =>
    /\ Val(stats).currentStreak <= Val(stats).maxStreak
    /\ (/\ CivilFromDays(LocalDay(now, tzOffset)).year # year
        /\ CivilFromDays(LocalDay(now, tzOffset) - 1).year # year)
         => Val(stats).currentStreak = 0

\* ------------------------------------------------------------------------
\* The pipeline on the directory listings
\* ------------------------------------------------------------------------

\* calculateAmpStats on every listing of DirListings, in Asia/Tokyo for 2025
\* and in America/Los_Angeles for 2024.
SpecPipeline == InitOrder /\ [][NextStats]_vars

\* C22: when no thread matches the requested year the statistics are
\* calculated and hold totalSessions 0, no mostActiveDay, maxStreak and
\* currentStreak 0, no maxStreakDays, no topModels and topProviders,
\* cacheHitRate 0 and weekday counts of 0.
C22_EmptyResult ==
  (Calculated /\ Retained = {}) =>
       /\ Val(stats).totalSessions = 0
       /\ Val(stats).mostActiveDay = None
       /\ Val(stats).maxStreak = 0
       /\ Val(stats).currentStreak = 0
       /\ Val(stats).maxStreakDays = {}
       /\ Val(stats).topModels = <<>>
       /\ Val(stats).topProviders = <<>>
       /\ Val(stats).cacheHitRate.num = 0
       /\ \A w \in 1..7 : Val(stats).weekdayActivity.counts[w] = 0

\* The directory holds thread files, one of another year and one that is
\* malformed, and none of the requested year.
C22_Witness ==
  /\ Calculated
  /\ Retained = {}
  /\ \E i \in 1..Len(threadFiles) : CreatedOutsideYear(threadFiles[i].content, year)
  /\ \E i \in 1..Len(threadFiles) : ~WellFormed(threadFiles[i].content)

\* The sum of the values of a map from entry k on.
RECURSIVE SumValues(_, _)
SumValues(m, k) == IF k > Len(m) THEN 0 ELSE m[k][2] + SumValues(m, k + 1)

\* C25: at every point of the collection and at its end, the values of dailyActivity add up
\* to totalSessions, each is at least 1, and dailyActivity is empty exactly
\* when totalSessions is 0; mostActiveDay is none exactly when totalSessions
\* is 0.
C25_ActivitySumsToSessions ==
  /\ SumValues(summary.dailyActivity, 1) = summary.totalSessions
  /\ \A k \in 1..Len(summary.dailyActivity) : summary.dailyActivity[k][2] >= 1
  /\ Len(summary.dailyActivity) = 0 <=> summary.totalSessions = 0
  /\ Calculated => (Val(stats).mostActiveDay = None <=> Val(stats).totalSessions = 0)

\* Three sessions on two dates, one of them in a thread that throws in its
\* messages, with a most active day of two sessions.
C25_Witness ==
  /\ Calculated
  /\ Val(stats).totalSessions = 3
  /\ Len(summary.dailyActivity) = 2
  /\ IsSome(Val(stats).mostActiveDay)
  /\ Val(Val(stats).mostActiveDay).count = 2
  /\ \E i \in Retained : ~WellFormed(dirEntries[i].content)

\* ------------------------------------------------------------------------
\* The pipeline on one file mention
\* ------------------------------------------------------------------------

\* Creation times in and before 2025 (UTC).
MentionTimes == {NewYear2025 + 12, NewYear2025 - 2 * HoursPerDay}

\* Listings of one thread file T-1.json with one message, of a user or of an
\* assistant, that mentions one file of UriPool.
MentionListings ==
  { <<ThreadFile(ThreadIds[1],
                 Thread(Some(created), Some(<<Message(role, None, Some(<<File(Some(uri))>>))>>)))>> :
      created \in MentionTimes, role \in {"user", "assistant"}, uri \in UriPool }

InitMention ==
  /\ tzOffset = 0
  /\ year = 2025
  /\ dirExists = TRUE
  /\ dirEntries \in MentionListings
  /\ pc = "start"
  /\ threadFiles = <<>>
  /\ fileIdx = 1
  /\ messages = <<>>
  /\ msgIdx = 1
  /\ summary = EmptySummary
  /\ now = NewYear2025 + 2 * HoursPerDay
  /\ stats = None
  /\ cli = NoCli
  /\ call = NoCall

SpecMention == InitMention /\ [][Next]_vars

\* The URIs the user messages of retained threads mention.
UserUris ==
  UNION { {Val(Val(MessageAt(p).files)[k].uri) :
             k \in {j \in 1..Len(Val(MessageAt(p).files)) : IsSome(Val(MessageAt(p).files)[j].uri)}} :
          p \in {q \in RetainedMessages : MessageAt(q).role = "user" /\ IsSome(MessageAt(q).files)} }

\* The parts of a path between its "/" separators, and the parts but the
\* last joined by "/".
PartsOf(path) == Split(path, "/")

ParentOf(path) ==
  LET parts == PartsOf(path)
  IN parts[1] \o JoinSegments(SubSeq(parts, 2, Len(parts) - 1), 1)

\* The project paths a URI stands for: none for a URI of another scheme,
\* the part before the first listed marker when the path has one, and else
\* the parent when the path has at least 4 parts.
ProjectsOf(uri) ==
  IF ~IsFileUri(uri) THEN {}
  ELSE LET path == PathOfUri(uri)
       IN IF MarkersIn(path) # {}
          THEN {SubSeq(path, 1, Least(MarkerPlaces(path, Least(MarkersIn(path)))))} \ {<<>>}
          ELSE IF Len(PartsOf(path)) >= 4 THEN {ParentOf(path)} ELSE {}

\* C24: projects never holds a path that does not come from a file:// URI
\* of a user message of a retained thread; at the end it holds, for such a
\* URI without a marker, the path without its last part when the path
\* splits on "/" into at least 4 parts and nothing when it splits into
\* fewer, and nothing for a URI of another scheme.
C24_ProjectPathFallback ==
  /\ summary.projects \subseteq UNION {ProjectsOf(uri) : uri \in {u \in UserUris : IsFileUri(u)}}
  /\ pc = "done" => summary.projects = UNION {ProjectsOf(uri) : uri \in UserUris}
  /\ pc = "done" =>
       \A uri \in UserUris :
         (IsFileUri(uri) /\ MarkersIn(PathOfUri(uri)) = {} /\ Len(PartsOf(PathOfUri(uri))) < 4)
           => summary.projects = {}

\* A user message of a thread of 2025 mentions file:///p/p/p, which splits
\* into 4 parts, and /p/p is the one project.
C24_Witness ==
  /\ pc = "done"
  /\ UserUris = {FileScheme \o <<"/", "p", "/", "p", "/", "p">>}
  /\ summary.projects = {<<"/", "p", "/", "p">>}

\* ------------------------------------------------------------------------
\* countStreakBackwards called on its own
\* ------------------------------------------------------------------------

\* The largest number of dates of the dailyActivity map of
\* countStreakBackwards.
MaxBack == 3

\* The day number of 2025-11-02, the day daylight time ends in
\* America/Los_Angeles.
AutumnDay == DaysFromCivil(2025, 11, 2)

\* The date keys of 2025-10-31 to 2025-11-03.
BackKeys == {formatDateKey(d * HoursPerDay, 0) : d \in (AutumnDay - 2)..(AutumnDay + 1)}

\* Maps of up to MaxBack of these dates, in any insertion order.
BackMaps ==
  UNION { { m \in [1..k -> BackKeys \X {1}] :
              \A i, j \in 1..k : m[i][1] = m[j][1] => i = j } : k \in 0..MaxBack }

\* The start dates: 07:00, 12:00 and 20:00 UTC of 2025-11-02 and 2025-11-03.
BackTimes == {(AutumnDay + d) * HoursPerDay + h : d \in 0..1, h \in {7, 12, 20}}

\* calculateStreaks calls countStreakBackwards with today or yesterday as
\* the start date, and only when dailyActivity has the key of that date.
InitBackward ==
  /\ \E tz \in TimeZones : CollectorAtStart(tz, 2025)
  /\ now = (AutumnDay + 1) * HoursPerDay + 20
  /\ stats = None
  /\ cli = NoCli
  /\ \E dailyActivity \in BackMaps, startDate \in BackTimes :
       /\ MapHas(dailyActivity, formatDateKey(startDate, tzOffset))
       /\ call = [fn |-> "countStreakBackwards",
                  arg |-> [dailyActivity |-> dailyActivity, startDate |-> startDate],
                  returned |-> FALSE, ret |-> <<>>]

\* countStreakBackwards(dailyActivity, new Date())
CallCountStreakBackwards ==
  /\ call.fn = "countStreakBackwards"
  /\ ~call.returned
  /\ call' = [call EXCEPT
                !.returned = TRUE,
                !.ret = Some(countStreakBackwards(call.arg.dailyActivity, call.arg.startDate,
                                                  tzOffset))]
  /\ UNCHANGED <<collector, now, stats, cli>>

SpecBackward == InitBackward /\ [][CallCountStreakBackwards]_vars

\* The day number of the calendar date one of these keys names.
BackDayOfKey(key) ==
  CHOOSE d \in (AutumnDay - 5)..(AutumnDay + 5) : formatDateKey(d * HoursPerDay, 0) = key

\* The number of days before day d that are in a set without a gap.
DaysBefore(days, d) ==
  CHOOSE n \in 0..Cardinality(days) :
    /\ \A k \in 1..n : d - k \in days
    /\ d - (n + 1) \notin days

\* C27: the walk returns; it has counted the start date and the calendar
\* days before it one by one up to the first day that is not in
\* dailyActivity, and the count is between 1 and the number of keys.
C27_BackwardWalk ==
  (call.fn = "countStreakBackwards" /\ call.returned) =>
    LET days  == {BackDayOfKey(call.arg.dailyActivity[i][1]) : i \in 1..Len(call.arg.dailyActivity)}
        start == LocalDay(call.arg.startDate, tzOffset)
    IN /\ IsSome(call.ret)
       /\ Val(call.ret) = 1 + DaysBefore(days, start)
       /\ 1 <= Val(call.ret)
       /\ Val(call.ret) <= Len(call.arg.dailyActivity)

\* ------------------------------------------------------------------------
\* main: the run of the command line
\* ------------------------------------------------------------------------

\* The largest number of thread files in the directory of a run of main.
MaxCli == 2

\* Listings of up to MaxCli thread files created in or before 2025 (UTC),
\* each with one user message.
CliListings ==
  UNION { { [i \in 1..n |-> ThreadFile(ThreadIds[i], Thread(Some(created[i]), Some(<<UserPlain>>)))]
              : created \in [1..n -> MentionTimes] } : n \in 0..MaxCli }

\* main has been called and has done nothing yet.
CliStart == [pc |-> "args", steps |-> <<>>, exitCode |-> None]

InitCli ==
  /\ tzOffset = 0
  /\ year = 2025
  /\ dirExists \in BOOLEAN
  /\ dirEntries \in CliListings
  /\ pc = "start"
  /\ threadFiles = <<>>
  /\ fileIdx = 1
  /\ messages = <<>>
  /\ msgIdx = 1
  /\ summary = EmptySummary
  /\ now = NewYear2025 + 2 * HoursPerDay
  /\ stats = None
  /\ call = NoCall
  /\ cli = CliStart

\* main goes on to position next after the steps done.
Proceed(next, done) == [cli EXCEPT !.pc = next, !.steps = @ \o done]

\* process.exit(code) after the steps done.
Exit(code, done) ==
  [cli EXCEPT !.pc = "exited", !.steps = @ \o done, !.exitCode = Some(code)]

\* parseArgs, --help, --version and p.intro; an option parseArgs does not
\* know makes it throw, and main().catch exits with 1.
ParseArgs ==
  /\ cli.pc = "args"
  /\ \E option \in {"help", "version", "unknown", "none"} :
       cli' = CASE option = "help"    -> Exit(0, <<"help">>)
                [] option = "version" -> Exit(0, <<"version">>)
                [] option = "unknown" -> Exit(1, <<"unexpected">>)
                [] OTHER              -> Proceed("availability", <<"intro">>)
  /\ UNCHANGED <<collector, now, stats, call>>

\* const availability = isWrappedAvailable(requestedYear)
CheckAvailability ==
  /\ cli.pc = "availability"
  /\ \E available \in BOOLEAN :
       cli' = IF ~available THEN Exit(0, <<"unavailable">>)
              ELSE Proceed("data", <<"available">>)
  /\ UNCHANGED <<collector, now, stats, call>>

\* const dataExists = await checkAmpDataExists(), and the start of
\* calculateAmpStats.
CheckData ==
  /\ cli.pc = "data"
  /\ LET dataExists == dirExists
     IN cli' = IF ~dataExists THEN Exit(0, <<"dataMissing">>)
               ELSE Proceed("stats", <<"dataFound">>)
  /\ UNCHANGED <<collector, now, stats, call>>

\* catch (error) of the call of calculateAmpStats.
StatsThrows ==
  /\ cli.pc = "stats"
  /\ stats = None
  /\ cli' = Exit(1, <<"statsThrew">>)
  /\ UNCHANGED <<collector, now, stats, call>>

\* NoActivity never telling that the year has no session.
NoActivity_Never(s) == FALSE

\* if (stats.totalSessions === 0)
NoActivity(s) == s.totalSessions = 0

\* calculateAmpStats has returned: the test of totalSessions and the
\* summary note.
StatsReturn ==
  /\ cli.pc = "stats"
  /\ IsSome(stats)
  /\ cli' = IF NoActivity(Val(stats)) THEN Exit(0, <<"statsComputed", "noActivity">>)
            ELSE Proceed("image", <<"statsComputed", "note">>)
  /\ UNCHANGED <<collector, now, stats, call>>

\* image = await generateAmpImage(stats), and its catch (error).
GenerateImage ==
  /\ cli.pc = "image"
  /\ \E threw \in BOOLEAN :
       cli' = IF threw THEN Exit(1, <<"imageThrew">>)
              ELSE Proceed("display", <<"image">>)
  /\ UNCHANGED <<collector, now, stats, call>>

\* const displayed = await displayInTerminal(image.displaySize)
DisplayInTerminal ==
  /\ cli.pc = "display"
  /\ \E displayed \in BOOLEAN :
       cli' = Proceed("clipboard", IF displayed THEN <<"display">> ELSE <<"display", "info">>)
  /\ UNCHANGED <<collector, now, stats, call>>

\* const { success, error } = await copyImageToClipboard(image.fullSize, filename)
CopyImageToClipboard ==
  /\ cli.pc = "clipboard"
  /\ \E success \in BOOLEAN :
       cli' = Proceed("save", IF success THEN <<"clipboard">> ELSE <<"clipboard", "warn">>)
  /\ UNCHANGED <<collector, now, stats, call>>

\* const shouldSave = await p.confirm(...), and Bun.write when it is true;
\* a failed write is logged and main goes on.
SavePrompt ==
  /\ cli.pc = "save"
  /\ \E shouldSave \in {"cancel", "yes", "no"}, written \in BOOLEAN :
       cli' = CASE shouldSave = "cancel" -> Exit(0, <<"savePrompt", "cancelled">>)
                [] shouldSave = "yes"    ->
                     Proceed("share", <<"savePrompt", IF written THEN "saved" ELSE "saveFailed">>)
                [] OTHER                 -> Proceed("share", <<"savePrompt">>)
  /\ UNCHANGED <<collector, now, stats, call>>

\* const shouldShare = await p.confirm(...), openUrl when it is true, p.outro
\* and process.exit(0).
SharePrompt ==
  /\ cli.pc = "share"
  /\ \E shouldShare \in {"cancel", "yes", "no"}, opened \in BOOLEAN :
       cli' = IF shouldShare = "yes"
              THEN Exit(0, <<"sharePrompt", IF opened THEN "opened" ELSE "notOpened", "outro">>)
              ELSE Exit(0, <<"sharePrompt", "outro">>)
  /\ UNCHANGED <<collector, now, stats, call>>

\* The collector and the calculator run while main awaits calculateAmpStats.
AwaitStats == cli.pc = "stats" /\ NextStats

NextCli ==
  \/ ParseArgs
  \/ CheckAvailability
  \/ CheckData
  \/ AwaitStats
  \/ StatsThrows
  \/ StatsReturn
  \/ GenerateImage
  \/ DisplayInTerminal
  \/ CopyImageToClipboard
  \/ SavePrompt
  \/ SharePrompt

SpecCli == InitCli /\ [][NextCli]_vars

\* The steps that need the image, and the places of a step in the run.
ImageSteps == {"image", "imageThrew", "display", "clipboard", "savePrompt", "sharePrompt"}

Places(step) == {i \in 1..Len(cli.steps) : cli.steps[i] = step}

\* C28: a step that generates, displays, copies, saves or shares the image
\* comes after the availability check passed, then the data directory was
\* found, then stats were computed, with totalSessions > 0; once the stats
\* have totalSessions = 0 no image is generated and an exit is with code 0;
\* a throw of the stats computation or of the image generation is the last
\* step and the exit code is 1.
C28_CliOrdering ==
  /\ \A i \in 1..Len(cli.steps) :
       cli.steps[i] \in ImageSteps =>
         /\ \E a \in Places("available"), d \in Places("dataFound"), c \in Places("statsComputed") :
              a < d /\ d < c /\ c < i
         /\ IsSome(stats)
         /\ Val(stats).totalSessions > 0
  /\ (IsSome(stats) /\ Val(stats).totalSessions = 0) =>
       /\ Places("image") = {}
       /\ cli.pc = "exited" => cli.exitCode = Some(0)
  /\ \A i \in Places("statsThrew") \cup Places("imageThrew") :
       /\ i = Len(cli.steps)
       /\ cli.pc = "exited"
       /\ cli.exitCode = Some(1)

\* A run that went through every step to the outro.
C28_Witness ==
  /\ cli.pc = "exited"
  /\ cli.exitCode = Some(0)
  /\ \A step \in {"image", "display", "clipboard", "savePrompt", "saved", "sharePrompt",
                  "opened", "outro"} : Places(step) # {}
  /\ Val(stats).totalSessions = 2

====
